---- MODULE Spec2Model ----
(***************************************************************************)
(* Telemetry ingestion and scoring backend (backend/app): the worker and   *)
(* machine scorers, the synthetic telemetry generators and the request     *)
(* handlers that persist history entries.                                  *)
(*                                                                         *)
(* Fixed-point units.  Python floats are modelled as scaled integers:      *)
(*   worker / machine temperature   tenths of a degree C   (38.5 -> 385)   *)
(*   vibration_rms, *_norm metrics  hundredths             (2.5  -> 250)   *)
(*   operating_hours                tenths of an hour      (6.5  -> 65)    *)
(* All thresholds of the scorers are exact in these units.                 *)
(***************************************************************************)
EXTENDS Integers, Sequences, FiniteSets, TLC

VARIABLES
    workers,            \* table workers: the registered worker_id values
    worker_vitals,      \* table worker_vitals: worker_id -> entries, oldest first
    machines,           \* table machines: registered machine_id -> type
    machine_telemetry,  \* table machine_telemetry: machine_id -> entries, oldest first
    background_tasks,   \* BackgroundTasks: payloads queued for the ESP32 sink
    last,               \* the request served last and its response
    call                \* a scorer invocation: function, argument, result

vars == <<workers, worker_vitals, machines, machine_telemetry,
          background_tasks, last, call>>

None == "None"

Max(a, b) == IF a >= b THEN a ELSE b
Min(a, b) == IF a <= b THEN a ELSE b

(***************************************************************************)
(* Worker scorer (api/workers.py)                                          *)
(***************************************************************************)

\* Mutant: the final clamp is dropped.
calculate_cis_score_noclamp(vitals) ==
    LET s0 == 100
        s1 == IF vitals.heart_rate > 120 THEN s0 - 30
              ELSE IF vitals.heart_rate > 100 THEN s0 - 15
              ELSE IF vitals.heart_rate < 50 THEN s0 - 20
              ELSE s0
        s2 == IF vitals.hrv < 20 THEN s1 - 30
              ELSE IF vitals.hrv < 35 THEN s1 - 15
              ELSE s1
        s3 == IF vitals.temperature > 385 THEN s2 - 30
              ELSE IF vitals.temperature > 375 THEN s2 - 15
              ELSE IF vitals.temperature < 355 THEN s2 - 20
              ELSE s2
        s4 == IF vitals.machine_stress_index > 70 THEN s3 - 20
              ELSE IF vitals.machine_stress_index > 50 THEN s3 - 10
              ELSE s3
        s5 == s4 - Min(vitals.jerk_count * 2, 15)
    IN  s5

\* Mutant: the heart-rate band starts at >= 120 instead of > 120.
calculate_cis_score_ge120(vitals) ==
    LET s0 == 100
        s1 == IF vitals.heart_rate >= 120 THEN s0 - 30
              ELSE IF vitals.heart_rate > 100 THEN s0 - 15
              ELSE IF vitals.heart_rate < 50 THEN s0 - 20
              ELSE s0
        s2 == IF vitals.hrv < 20 THEN s1 - 30
              ELSE IF vitals.hrv < 35 THEN s1 - 15
              ELSE s1
        s3 == IF vitals.temperature > 385 THEN s2 - 30
              ELSE IF vitals.temperature > 375 THEN s2 - 15
              ELSE IF vitals.temperature < 355 THEN s2 - 20
              ELSE s2
        s4 == IF vitals.machine_stress_index > 70 THEN s3 - 20
              ELSE IF vitals.machine_stress_index > 50 THEN s3 - 10
              ELSE s3
        s5 == s4 - Min(vitals.jerk_count * 2, 15)
    IN  Max(0, Min(100, s5))

\* Mutant: the two upper heart-rate penalties are exchanged.
calculate_cis_score_exchanged(vitals) ==
    LET s0 == 100
        s1 == IF vitals.heart_rate > 120 THEN s0 - 15
              ELSE IF vitals.heart_rate > 100 THEN s0 - 30
              ELSE IF vitals.heart_rate < 50 THEN s0 - 20
              ELSE s0
        s2 == IF vitals.hrv < 20 THEN s1 - 30
              ELSE IF vitals.hrv < 35 THEN s1 - 15
              ELSE s1
        s3 == IF vitals.temperature > 385 THEN s2 - 30
              ELSE IF vitals.temperature > 375 THEN s2 - 15
              ELSE IF vitals.temperature < 355 THEN s2 - 20
              ELSE s2
        s4 == IF vitals.machine_stress_index > 70 THEN s3 - 20
              ELSE IF vitals.machine_stress_index > 50 THEN s3 - 10
              ELSE s3
        s5 == s4 - Min(vitals.jerk_count * 2, 15)
    IN  Max(0, Min(100, s5))

calculate_cis_score(vitals) ==
    LET s0 == 100
        \* Heart rate penalties
        s1 == IF vitals.heart_rate > 120 THEN s0 - 30
              ELSE IF vitals.heart_rate > 100 THEN s0 - 15
              ELSE IF vitals.heart_rate < 50 THEN s0 - 20
              ELSE s0
        \* HRV penalties
        s2 == IF vitals.hrv < 20 THEN s1 - 30
              ELSE IF vitals.hrv < 35 THEN s1 - 15
              ELSE s1
        \* Temperature penalties
        s3 == IF vitals.temperature > 385 THEN s2 - 30
              ELSE IF vitals.temperature > 375 THEN s2 - 15
              ELSE IF vitals.temperature < 355 THEN s2 - 20
              ELSE s2
        \* Machine stress penalty
        s4 == IF vitals.machine_stress_index > 70 THEN s3 - 20
              ELSE IF vitals.machine_stress_index > 50 THEN s3 - 10
              ELSE s3
        \* Jerk count penalty
        s5 == s4 - Min(vitals.jerk_count * 2, 15)
    IN  Max(0, Min(100, s5))

\* Mutant: the MEDIUM band is closed one point higher (<= 71).
determine_risk_state_le71(cis_score) ==
    IF cis_score <= 30 THEN "HIGH"
    ELSE IF cis_score <= 71 THEN "MEDIUM"
    ELSE "LOW"

\* Mutant: the HIGH band is open at 30 (< 30).
determine_risk_state_lt30(cis_score) ==
    IF cis_score < 30 THEN "HIGH"
    ELSE IF cis_score <= 70 THEN "MEDIUM"
    ELSE "LOW"

determine_risk_state(cis_score) ==
    IF cis_score <= 30 THEN "HIGH"
    ELSE IF cis_score <= 70 THEN "MEDIUM"
    ELSE "LOW"

(***************************************************************************)
(* Machine scorer (api/machines.py)                                        *)
(***************************************************************************)

\* Mutant: the tiers are not exclusive (every breached tier is subtracted).
calculate_health_score_cumulative(telemetry) ==
    LET p(c, n) == IF c THEN n ELSE 0
        s == 100
             - p(telemetry.stress_index > 80, 30) - p(telemetry.stress_index > 60, 15)
             - p(telemetry.stress_index > 40, 5)
             - p(telemetry.temperature > 900, 30) - p(telemetry.temperature > 750, 15)
             - p(telemetry.temperature > 600, 5)
             - p(telemetry.vibration_rms > 300, 25) - p(telemetry.vibration_rms > 200, 15)
             - p(telemetry.vibration_rms > 150, 5)
             - p(telemetry.oil_pressure < 20, 25) - p(telemetry.oil_pressure < 30, 10)
    IN  Max(0, Min(100, s))

\* Mutant: the final clamp is dropped.
calculate_health_score_noclamp(telemetry) ==
    LET s0 == 100
        s1 == IF telemetry.stress_index > 80 THEN s0 - 30
              ELSE IF telemetry.stress_index > 60 THEN s0 - 15
              ELSE IF telemetry.stress_index > 40 THEN s0 - 5
              ELSE s0
        s2 == IF telemetry.temperature > 900 THEN s1 - 30
              ELSE IF telemetry.temperature > 750 THEN s1 - 15
              ELSE IF telemetry.temperature > 600 THEN s1 - 5
              ELSE s1
        s3 == IF telemetry.vibration_rms > 300 THEN s2 - 25
              ELSE IF telemetry.vibration_rms > 200 THEN s2 - 15
              ELSE IF telemetry.vibration_rms > 150 THEN s2 - 5
              ELSE s2
        s4 == IF telemetry.oil_pressure < 20 THEN s3 - 25
              ELSE IF telemetry.oil_pressure < 30 THEN s3 - 10
              ELSE s3
    IN  s4

calculate_health_score(telemetry) ==
    LET s0 == 100
        \* Stress index penalties
        s1 == IF telemetry.stress_index > 80 THEN s0 - 30
              ELSE IF telemetry.stress_index > 60 THEN s0 - 15
              ELSE IF telemetry.stress_index > 40 THEN s0 - 5
              ELSE s0
        \* Temperature penalties
        s2 == IF telemetry.temperature > 900 THEN s1 - 30
              ELSE IF telemetry.temperature > 750 THEN s1 - 15
              ELSE IF telemetry.temperature > 600 THEN s1 - 5
              ELSE s1
        \* Vibration penalties
        s3 == IF telemetry.vibration_rms > 300 THEN s2 - 25
              ELSE IF telemetry.vibration_rms > 200 THEN s2 - 15
              ELSE IF telemetry.vibration_rms > 150 THEN s2 - 5
              ELSE s2
        \* Oil pressure penalties
        s4 == IF telemetry.oil_pressure < 20 THEN s3 - 25
              ELSE IF telemetry.oil_pressure < 30 THEN s3 - 10
              ELSE s3
    IN  Max(0, Min(100, s4))

\* Mutant: the three additions are an elif chain (only the first applies).
calculate_failure_probability_elif(health_score, telemetry) ==
    LET p0 == Max(0, 100 - health_score)
        p1 == IF telemetry.vibration_rms > 250 THEN p0 + 15
              ELSE IF telemetry.temperature > 800 THEN p0 + 10
              ELSE IF telemetry.oil_pressure < 25 THEN p0 + 15
              ELSE p0
    IN  Min(100, Max(0, p1))

\* Mutant: the result is not clamped at 100.
calculate_failure_probability_noclamp(health_score, telemetry) ==
    LET p0 == Max(0, 100 - health_score)
        p1 == IF telemetry.vibration_rms > 250 THEN p0 + 15 ELSE p0
        p2 == IF telemetry.temperature > 800 THEN p1 + 10 ELSE p1
        p3 == IF telemetry.oil_pressure < 25 THEN p2 + 15 ELSE p2
    IN  Max(0, p3)

calculate_failure_probability(health_score, telemetry) ==
    LET \* Base probability inversely related to health
        p0 == Max(0, 100 - health_score)
        \* Additional factors
        p1 == IF telemetry.vibration_rms > 250 THEN p0 + 15 ELSE p0
        p2 == IF telemetry.temperature > 800 THEN p1 + 10 ELSE p1
        p3 == IF telemetry.oil_pressure < 25 THEN p2 + 15 ELSE p2
    IN  Min(100, Max(0, p3))

\* Mutant: the MAINTENANCE band uses failure_prob >= 70.
determine_status_ge70(health_score, failure_prob) ==
    IF health_score < 40 \/ failure_prob >= 70 THEN "MAINTENANCE"
    ELSE IF health_score < 60 \/ failure_prob > 50 THEN "WARNING"
    ELSE "OPERATIONAL"

determine_status(health_score, failure_prob) ==
    IF health_score < 40 \/ failure_prob > 70 THEN "MAINTENANCE"
    ELSE IF health_score < 60 \/ failure_prob > 50 THEN "WARNING"
    ELSE "OPERATIONAL"

(***************************************************************************)
(* The random source.  random.uniform(a, b) returns a value of [a, b]; a   *)
(* draw is modelled by the quarter f in 0..4 of the interval it lands on,  *)
(* and every generator call takes the record u of the draws it makes (one  *)
(* field per call of random.uniform / random.random / random.randint).     *)
(* Intervals <<lo, hi>> are kept in hundredths of the unit of the value    *)
(* that is stored, so that int() and round() act on the exact end points.  *)
(***************************************************************************)

Quarters == 0..4

Fine(x) == x * 100

\* Mutant: get_value returns the value without clamping it.
ClampInterval_none(I, clamp_range) == I

\* max(clamp_range[0], min(clamp_range[1], value)) on both ends of an interval
ClampInterval(I, clamp_range) ==
    <<Max(Fine(clamp_range[1]), Min(Fine(clamp_range[2]), I[1])),
      Max(Fine(clamp_range[1]), Min(Fine(clamp_range[2]), I[2]))>>

\* Mutant: int() rounds to the nearest integer.
IntOf_nearest(x) == (x + 50) \div 100

\* int(x) for x >= 0
IntOf(x) == x \div 100

\* round(x, n) of the exact decimal x: to the nearest unit, a tie to the even
\* neighbour.  Only an end point of a draw can be a tie; there the binary
\* float may lie on either side of it.
RoundOf(x) ==
    LET q == x \div 100
        r == x % 100
    IN  IF r < 50 THEN q
        ELSE IF r > 50 THEN q + 1
        ELSE IF q % 2 = 0 THEN q ELSE q + 1

\* The value at quarter f of the values lo..hi a draw can be converted to.
Pick(lo, hi, f) == lo + ((hi - lo) * f) \div 4

(***************************************************************************)
(* Worker generator (api/workers.py)                                       *)
(***************************************************************************)

NoValues == <<>>

IsTarget(target_state) == target_state \in {"good", "fair", "poor"}

\* targets of generate_comprehensive_worker_telemetry: temperature in tenths,
\* stress (movement intensity) in hundredths
WorkerTargets ==
    [good |-> [hr |-> <<60, 80>>, hrv |-> <<65, 95>>,
               temp |-> <<363, 368>>, stress |-> <<0, 25>>],
     fair |-> [hr |-> <<80, 100>>, hrv |-> <<35, 60>>,
               temp |-> <<369, 373>>, stress |-> <<30, 50>>],
     poor |-> [hr |-> <<115, 155>>, hrv |-> <<15, 30>>,
               temp |-> <<374, 383>>, stress |-> <<60, 90>>]]

WorkerTargetKeys ==
    [heart_rate_bpm |-> "hr", heart_rate_variability_ms |-> "hrv",
     body_temperature_c |-> "temp", movement_intensity_norm |-> "stress"]

\* get_value of generate_comprehensive_worker_telemetry: the interval of the
\* values it can return (delta_range in hundredths of the stored unit)
worker_get_value(current_values, target_state, key, default, delta_range, clamp_range) ==
    IF IsTarget(target_state) /\ key \in DOMAIN WorkerTargetKeys
    THEN LET t == WorkerTargets[target_state][WorkerTargetKeys[key]]
         IN  <<Fine(t[1]), Fine(t[2])>>
    ELSE LET value ==
                 IF key \in DOMAIN current_values
                 THEN <<Fine(current_values[key]) + delta_range[1],
                        Fine(current_values[key]) + delta_range[2]>>
                 ELSE <<Fine(default[1]), Fine(default[2])>>
         IN  ClampInterval(value, clamp_range)

\* int(movement_intensity * 100): 0.29, 0.57 and 0.58 times 100 fall just
\* below the integer in binary floating point
Times100Short == {29, 57, 58}

\* round(movement_intensity * 0.5, 2) for an odd number k of hundredths: the
\* k whose half is rounded up by the float product
HalfRoundsUp ==
    {1, 5, 7, 11, 13, 17, 19, 23, 27, 33, 39, 45, 51, 53, 55, 63, 65, 67,
     75, 77, 79, 81, 89, 91, 93}

\* Mutant: the generator stores the risk state of a fixed score.
worker_sim_risk_fixed(cis_score) == "LOW"

\* risk_state of the generator: determine_risk_state(cis_score).lower(), and
\* .upper() again in the returned dict
worker_sim_risk(cis_score) == determine_risk_state(cis_score)

\* Mutant: the generator's score is not clamped below.
worker_sim_score_low(heart_rate, hrv, body_temp) ==
    100 - (IF heart_rate > 110 THEN 60 ELSE 0) - (IF hrv < 25 THEN 20 ELSE 0)
        - (IF body_temp > 380 THEN 25 ELSE 0)

\* cis_score of the generator (the SAFETY block)
worker_sim_score(heart_rate, hrv, body_temp) ==
    LET s0 == 100
        s1 == IF heart_rate > 110 THEN s0 - 20 ELSE s0
        s2 == IF hrv < 25 THEN s1 - 20 ELSE s1
        s3 == IF body_temp > 380 THEN s2 - 25 ELSE s2
    IN  Max(0, Min(100, s3))

\* u: the draws hr, hrv, temp, move (uniform), jerk (random() < 0.1),
\* work, shift (uniform).  The draws for blood_oxygen_pct, ambient temperature,
\* noise, air quality, step count and posture strain are bound to locals that
\* the function never returns.
generate_comprehensive_worker_telemetry(current_values, target_state, u) ==
    LET gv(key, default, delta_range, clamp_range) ==
            worker_get_value(current_values, target_state, key, default,
                             delta_range, clamp_range)
        hrI == gv("heart_rate_bpm", <<60, 95>>, <<-300, 300>>, <<45, 180>>)
        hrvI == gv("heart_rate_variability_ms", <<30, 80>>, <<-500, 500>>, <<10, 150>>)
        tempI == gv("body_temperature_c", <<365, 372>>, <<-100, 100>>, <<350, 400>>)
        moveI == gv("movement_intensity_norm", <<20, 70>>, <<-500, 500>>, <<0, 100>>)
        heart_rate == Pick(IntOf(hrI[1]), IntOf(hrI[2]), u.hr)
        hrv == Pick(IntOf(hrvI[1]), IntOf(hrvI[2]), u.hrv)
        body_temp == Pick(RoundOf(tempI[1]), RoundOf(tempI[2]), u.temp)
        movement_intensity == Pick(RoundOf(moveI[1]), RoundOf(moveI[2]), u.move)
        jerk_count == (movement_intensity \div 10) + (IF u.jerk THEN 1 ELSE 0)
        cis_score == worker_sim_score(heart_rate, hrv, body_temp)
        risk_state == worker_sim_risk(cis_score)
        machine_stress == IF movement_intensity \in Times100Short
                          THEN movement_intensity - 1 ELSE movement_intensity
        vibration_rms == IF movement_intensity % 2 = 0 THEN movement_intensity \div 2
                         ELSE IF movement_intensity \in HalfRoundsUp
                              THEN (movement_intensity + 1) \div 2
                              ELSE (movement_intensity - 1) \div 2
    IN  [heart_rate |-> heart_rate,
         hrv |-> hrv,
         temperature |-> body_temp,
         jerk_count |-> jerk_count,
         machine_stress_index |-> machine_stress,
         vibration_rms |-> vibration_rms,
         cis_score |-> cis_score,
         risk_state |-> risk_state,
         physiological_status |->
             [heart_rate_bpm |-> heart_rate, heart_rate_variability_ms |-> hrv,
              body_temperature_c |-> body_temp],
         environmental_stress |->
             [skin_temperature_c |-> body_temp - 20, temperature_drift_rate |-> 2],
         behavioral |->
             [continuous_work_minutes |-> Pick(10, 240, u.work),
              break_gap_minutes |-> 45,
              shift_hours_accumulated |-> Pick(0, 8, u.shift)],
         motion_posture |->
             [motion_magnitude |-> movement_intensity * 5,
              motion_cadence |-> 5,
              sudden_jerks_count |-> jerk_count,
              over_corrections_count |-> 0,
              reaction_latency_ms |-> 400]]

\* generate_incremental_worker_telemetry: the DB fields under the generator's keys
generate_incremental_worker_telemetry(current_values, target_state, u) ==
    LET mapped_values ==
            [heart_rate_bpm |-> current_values.heart_rate,
             heart_rate_variability_ms |-> current_values.hrv,
             body_temperature_c |-> current_values.temperature,
             movement_intensity_norm |-> current_values.machine_stress_index]
    IN  generate_comprehensive_worker_telemetry(mapped_values, target_state, u)

\* ranges of generate_correlated_machine_data: norms in hundredths,
\* temperatures in whole degrees
CorrelatedRanges(target_state) ==
    IF target_state = "good"
    THEN [actuator |-> <<20, 50>>, torque |-> <<20, 40>>, duty |-> <<30, 60>>,
          vib |-> <<5, 25>>, rpm |-> <<0, 10>>, temp_eng |-> <<70, 80>>,
          temp_oil |-> <<65, 75>>, hours |-> 1200, health |-> 95, maint |-> "optimal"]
    ELSE IF target_state = "poor"
    THEN [actuator |-> <<70, 95>>, torque |-> <<70, 95>>, duty |-> <<80, 98>>,
          vib |-> <<70, 95>>, rpm |-> <<30, 60>>, temp_eng |-> <<95, 110>>,
          temp_oil |-> <<90, 105>>, hours |-> 1200, health |-> 60, maint |-> "critical"]
    ELSE [actuator |-> <<40, 70>>, torque |-> <<40, 60>>, duty |-> <<50, 70>>,
          vib |-> <<30, 60>>, rpm |-> <<10, 30>>, temp_eng |-> <<80, 90>>,
          temp_oil |-> <<75, 85>>, hours |-> 1200, health |-> 85, maint |-> "normal"]

\* c: the draws actuator, torque, duty, vib, rpm, temp_eng, temp_oil (uniform),
\* shock (random() < 0.3), hours (randint(0, 100)), minutes (randint(30, 240)),
\* health (randint(0, 5)).  r(k) rounds to 2 places: temperatures in hundredths.
generate_correlated_machine_data(target_state, c) ==
    LET ranges == CorrelatedRanges(target_state)
        r(k, f) == Pick(ranges[k][1], ranges[k][2], f)
        rt(k, f) == Pick(Fine(ranges[k][1]), Fine(ranges[k][2]), f)
    IN  [operational_intensity |->
             [actuator_speed_norm |-> r("actuator", c.actuator),
              torque_load_norm |-> r("torque", c.torque),
              duty_cycle |-> r("duty", c.duty)],
         mechanical_stress |->
             [vibration_rms_norm |-> r("vib", c.vib),
              shock_event |-> (target_state = "poor" /\ c.shock),
              rpm_instability |-> r("rpm", c.rpm)],
         thermal_stress |->
             [engine_temperature_c |-> rt("temp_eng", c.temp_eng),
              oil_temperature_c |-> rt("temp_oil", c.temp_oil)],
         usage_fatigue |->
             [operating_hours_total |-> ranges.hours + Pick(0, 100, c.hours),
              continuous_run_minutes |-> Pick(30, 240, c.minutes)],
         health_context |->
             [machine_health_score |-> ranges.health - Pick(0, 5, c.health),
              maintenance_state |-> ranges.maint]]

(***************************************************************************)
(* Machine generator (api/machines.py)                                     *)
(***************************************************************************)

\* temperature in whole degrees, vibration in hundredths (RMS units)
TYPE_PROFILES ==
    [CRANE |-> [temp_range |-> <<45, 85>>, vibration_range |-> <<50, 250>>,
                stress_range |-> <<20, 70>>, fuel_range |-> <<30, 95>>,
                oil_range |-> <<35, 55>>],
     EXCAVATOR |-> [temp_range |-> <<50, 95>>, vibration_range |-> <<80, 320>>,
                    stress_range |-> <<30, 80>>, fuel_range |-> <<20, 90>>,
                    oil_range |-> <<30, 50>>],
     LOADER |-> [temp_range |-> <<45, 80>>, vibration_range |-> <<60, 280>>,
                 stress_range |-> <<25, 75>>, fuel_range |-> <<25, 85>>,
                 oil_range |-> <<32, 52>>],
     DRILL |-> [temp_range |-> <<55, 100>>, vibration_range |-> <<100, 400>>,
                stress_range |-> <<40, 90>>, fuel_range |-> <<15, 80>>,
                oil_range |-> <<28, 48>>],
     COMPRESSOR |-> [temp_range |-> <<60, 95>>, vibration_range |-> <<40, 200>>,
                     stress_range |-> <<20, 60>>, fuel_range |-> <<40, 100>>,
                     oil_range |-> <<38, 58>>],
     GENERATOR |-> [temp_range |-> <<50, 85>>, vibration_range |-> <<30, 180>>,
                    stress_range |-> <<15, 55>>, fuel_range |-> <<10, 100>>,
                    oil_range |-> <<35, 55>>]]

MachineTypes == DOMAIN TYPE_PROFILES

\* TYPE_PROFILES.get(machine_type.upper(), TYPE_PROFILES["CRANE"]); the types
\* of MachineCreate are upper case already
ProfileOf(machine_type) ==
    IF machine_type \in MachineTypes THEN TYPE_PROFILES[machine_type]
    ELSE TYPE_PROFILES["CRANE"]

\* norm in hundredths, temp_offset in whole degrees
TARGET_RANGES ==
    [good |-> [norm |-> <<5, 35>>, temp_offset |-> <<-10, -2>>],
     fair |-> [norm |-> <<40, 65>>, temp_offset |-> <<-2, 5>>],
     poor |-> [norm |-> <<70, 95>>, temp_offset |-> <<5, 15>>]]

NormKeys == {"actuator_speed_norm", "torque_load_norm", "vibration_rms_norm"}

\* Mutant: a target state replaces the default only, and a previous value wins.
machine_get_value_attracted(current_values, target_state, key, default, delta_range, clamp_range) ==
    LET value ==
            IF key \in DOMAIN current_values
            THEN <<current_values[key] + delta_range[1],
                   current_values[key] + delta_range[2]>>
            ELSE IF IsTarget(target_state) /\ key \in NormKeys
            THEN <<Fine(TARGET_RANGES[target_state].norm[1]),
                   Fine(TARGET_RANGES[target_state].norm[2])>>
            ELSE default
    IN  ClampInterval(value, clamp_range)

\* Mutant: a target state also overrides the history of rpm_instability.
machine_get_value_rpm_targeted(current_values, target_state, key, default, delta_range, clamp_range) ==
    LET value ==
            IF IsTarget(target_state) /\ key \in NormKeys
            THEN <<Fine(TARGET_RANGES[target_state].norm[1]),
                   Fine(TARGET_RANGES[target_state].norm[2])>>
            ELSE IF key \in DOMAIN current_values
                    /\ ~(IsTarget(target_state) /\ key = "rpm_instability")
            THEN <<current_values[key] + delta_range[1],
                   current_values[key] + delta_range[2]>>
            ELSE default
    IN  ClampInterval(value, clamp_range)

\* get_value of generate_comprehensive_telemetry: the interval, in hundredths
\* of the stored unit, of the values it can return.  default and delta_range
\* are given in those hundredths, clamp_range in stored units.
machine_get_value(current_values, target_state, key, default, delta_range, clamp_range) ==
    LET value ==
            IF IsTarget(target_state) /\ key \in NormKeys
            THEN <<Fine(TARGET_RANGES[target_state].norm[1]),
                   Fine(TARGET_RANGES[target_state].norm[2])>>
            ELSE IF key \in DOMAIN current_values
            THEN <<current_values[key] + delta_range[1],
                   current_values[key] + delta_range[2]>>
            ELSE default
    IN  ClampInterval(value, clamp_range)

\* int(min(100, max(0, x))) of the stress sum x = X / 20.  The float sum of an
\* exactly integral x can fall just below it (slack), and int() then truncates
\* to the integer below.
StressIndexOf(X, slack) ==
    IF X <= 0 THEN 0
    ELSE IF X > 2000 THEN 100
    ELSE IF X % 20 = 0 /\ slack THEN (X \div 20) - 1
    ELSE X \div 20

\* int(max(0, min(100, y))) of the health value y = Y / 10, with the same slack
\* (the terms are exact when stress_index is 0).
GeneratorHealthOf(Y, stress_index, slack) ==
    IF Y <= 0 THEN 0
    ELSE IF Y % 10 = 0 /\ slack /\ stress_index # 0 THEN Min(100, Y \div 10) - 1
    ELSE Min(100, Y \div 10)

\* Mutant: the attention band starts at 70.
maintenance_state_of_70(health_score) ==
    IF health_score >= 80 THEN "normal"
    ELSE IF health_score >= 70 THEN "attention"
    ELSE IF health_score >= 40 THEN "warning"
    ELSE "critical"

\* "Determine maintenance state" of generate_comprehensive_telemetry
maintenance_state_of(health_score) ==
    IF health_score >= 80 THEN "normal"
    ELSE IF health_score >= 60 THEN "attention"
    ELSE IF health_score >= 40 THEN "warning"
    ELSE "critical"

\* round(continuous_run_minutes / 60, 1) in tenths of an hour: m / 6 to the
\* nearest tenth; for m = 3 mod 6 the float quotient decides, and these are
\* the m of 0..480 it rounds up
HoursRoundUp ==
    {3, 27, 33, 39, 45, 63, 81, 93, 105, 111, 141, 147, 165, 171, 177, 201, 207,
     225, 231, 237, 249, 267, 279, 285, 297, 309, 327, 339, 345, 357, 369, 387,
     399, 405, 417, 429, 447, 459, 465, 477}

OperatingHoursOf(minutes) ==
    IF minutes % 6 = 3
    THEN IF minutes \in HoursRoundUp THEN (minutes \div 6) + 1 ELSE minutes \div 6
    ELSE (minutes + 3) \div 6

\* int(operating_hours * 60) for h tenths of an hour: 6 h, except where the
\* float product falls just below the integer (h up to 200.0)
Times60Short ==
    {41, 82, 164, 169, 323, 328, 333, 338, 641, 646, 651, 656, 661, 666, 671,
     676, 681, 1282, 1287, 1292, 1297, 1302, 1307, 1312, 1317, 1322, 1327, 1332,
     1337, 1342, 1347, 1352, 1357, 1362}

MinutesOf(operating_hours) ==
    IF operating_hours \in Times60Short THEN 6 * operating_hours - 1
    ELSE 6 * operating_hours

\* u: the draws actuator, torque, duty, vib (uniform), shock (random() <
\* shock_prob), rpm, temp, oil_temp, hours_total, minutes, fuel, oil (uniform),
\* and the float outcomes slack, hslack.  With a target state the temperature
\* takes two draws, the offset and the value around it: u.temp is the quarter
\* of the union of the intervals they span.
generate_comprehensive_telemetry(profile, current_values, target_state, u) ==
    LET gv(key, default, delta_range, clamp_range) ==
            machine_get_value(current_values, target_state, key, default,
                              delta_range, clamp_range)
        rounded(I, f) == Pick(RoundOf(I[1]), RoundOf(I[2]), f)
        truncated(I, f) == Pick(IntOf(I[1]), IntOf(I[2]), f)
        targeted == IsTarget(target_state)
        \* OPERATIONAL INTENSITY
        actuator_speed_norm ==
            rounded(gv("actuator_speed_norm", <<4000, 9000>>, <<-500, 500>>, <<10, 100>>),
                    u.actuator)
        torque_load_norm ==
            rounded(gv("torque_load_norm", <<3000, 8500>>, <<-400, 400>>, <<10, 100>>),
                    u.torque)
        duty_cycle ==
            rounded(gv("duty_cycle", <<5000, 9500>>, <<-300, 300>>, <<20, 100>>), u.duty)
        \* MECHANICAL STRESS
        vib_default == IF targeted
                       THEN <<Fine(TARGET_RANGES[target_state].norm[1]),
                              Fine(TARGET_RANGES[target_state].norm[2])>>
                       ELSE <<25 * profile.vibration_range[1],
                              25 * profile.vibration_range[2]>>
        vibration_rms_norm ==
            rounded(gv("vibration_rms_norm", vib_default, <<-800, 800>>, <<10, 100>>), u.vib)
        shock_event == u.shock
        rpm_instability_default ==
            IF targeted
            THEN <<Fine(TARGET_RANGES[target_state].norm[1]),
                   Fine(TARGET_RANGES[target_state].norm[2])>>
            ELSE <<500, 4000>>
        rpm_instability ==
            rounded(gv("rpm_instability", rpm_instability_default, <<-300, 300>>, <<0, 100>>),
                    u.rpm)
        \* THERMAL STRESS (tenths of a degree; intervals in thousandths)
        temp_profile == profile.temp_range
        mid == 500 * (temp_profile[1] + temp_profile[2])
        effective_temp_range ==
            IF targeted
            THEN <<mid + 1000 * TARGET_RANGES[target_state].temp_offset[1] - 5000,
                   mid + 1000 * TARGET_RANGES[target_state].temp_offset[2] + 5000>>
            ELSE <<1000 * temp_profile[1], 1000 * temp_profile[2]>>
        engine_temperature_c ==
            rounded(gv("engine_temperature_c", effective_temp_range, <<-2000, 2000>>,
                       <<400, 1200>>), u.temp)
        oil_temperature_c == engine_temperature_c - Pick(20, 80, u.oil_temp)
        \* USAGE FATIGUE
        operating_hours_total ==
            truncated(gv("operating_hours_total", <<50000, 300000>>, <<10, 50>>,
                         <<0, 10000>>), u.hours_total)
        continuous_run_minutes ==
            truncated(gv("continuous_run_minutes", <<3000, 24000>>, <<-500, 1000>>,
                         <<0, 480>>), u.minutes)
        \* DERIVED VALUES
        stress_index ==
            StressIndexOf(8 * vibration_rms_norm + (IF shock_event THEN 400 ELSE 0)
                          + 6 * rpm_instability + (engine_temperature_c - 700),
                          u.slack)
        health_score ==
            GeneratorHealthOf(1000 - 4 * stress_index - (IF shock_event THEN 100 ELSE 0)
                              - 2 * Max(0, engine_temperature_c - 950),
                              stress_index, u.hslack)
        maintenance_state == maintenance_state_of(health_score)
        \* Legacy compatibility values
        fuel_level ==
            truncated(gv("fuel_level", <<Fine(profile.fuel_range[1]),
                                         Fine(profile.fuel_range[2])>>,
                         <<-150, 50>>, <<5, 100>>), u.fuel)
        oil_pressure ==
            truncated(gv("oil_pressure", <<Fine(profile.oil_range[1]),
                                           Fine(profile.oil_range[2])>>,
                         <<-100, 100>>, <<20, 60>>), u.oil)
    IN  [temperature |-> engine_temperature_c,
         vibration_rms |-> vibration_rms_norm * 4,
         stress_index |-> stress_index,
         fuel_level |-> fuel_level,
         oil_pressure |-> oil_pressure,
         operating_hours |-> OperatingHoursOf(continuous_run_minutes),
         operational_intensity |->
             [actuator_speed_norm |-> actuator_speed_norm,
              torque_load_norm |-> torque_load_norm,
              duty_cycle |-> duty_cycle],
         mechanical_stress |->
             [vibration_rms_norm |-> vibration_rms_norm,
              shock_event |-> shock_event,
              rpm_instability |-> rpm_instability],
         thermal_stress |->
             [engine_temperature_c |-> engine_temperature_c,
              oil_temperature_c |-> oil_temperature_c],
         usage_fatigue |->
             [operating_hours_total |-> operating_hours_total,
              continuous_run_minutes |-> continuous_run_minutes],
         health_context |->
             [machine_health_score |-> health_score,
              maintenance_state |-> maintenance_state]]

\* generate_incremental_telemetry: current_values holds the DB fields only, so
\* the other keys take their .get() defaults.  prev_values in hundredths of
\* the stored unit.
generate_incremental_telemetry(machine_type, current_values, target_state, u) ==
    LET profile == ProfileOf(machine_type)
        prev_values ==
            [actuator_speed_norm |-> 7000,
             torque_load_norm |-> 6000,
             duty_cycle |-> 7500,
             vibration_rms_norm |-> 25 * current_values.vibration_rms,
             rpm_instability |-> 2000,
             engine_temperature_c |-> Fine(current_values.temperature),
             operating_hours_total |-> 100000,
             continuous_run_minutes |-> Fine(MinutesOf(current_values.operating_hours)),
             fuel_level |-> Fine(current_values.fuel_level),
             oil_pressure |-> Fine(current_values.oil_pressure)]
    IN  generate_comprehensive_telemetry(profile, prev_values, target_state, u)

(***************************************************************************)
(* Scorer invocations.  A call is drawn in Init and applied by the action  *)
(* of its function; the arguments are the declared domains of              *)
(* schemas/worker.py and schemas/machine.py sampled at their ends, around  *)
(* every threshold of the scorers and at the documented examples.          *)
(***************************************************************************)

ThresholdRadius == 1
MaxJerk == 8

Near(t) == (t - ThresholdRadius)..(t + ThresholdRadius)

HeartRates == {40, 220, 130} \cup Near(50) \cup Near(100) \cup Near(120)
Hrvs == {0, 200, 15} \cup Near(20) \cup Near(35)
WorkerTemperatures == {300, 450, 390} \cup Near(355) \cup Near(375) \cup Near(385)
WorkerStressIndexes == {0, 100, 80} \cup Near(50) \cup Near(70)
JerkCounts == 0..MaxJerk

WorkerVitalsCreate(id, hr, hrv, temp, jerk, stress, vib) ==
    [worker_id |-> id, heart_rate |-> hr, hrv |-> hrv, temperature |-> temp,
     jerk_count |-> jerk, machine_stress_index |-> stress, vibration_rms |-> vib]

MachineTelemetryCreate(id, st, stress, temp, vib, hours, fuel, oil) ==
    [machine_id |-> id, status |-> st, stress_index |-> stress, temperature |-> temp,
     vibration_rms |-> vib, operating_hours |-> hours, fuel_level |-> fuel,
     oil_pressure |-> oil]

MachineStressIndexes == {0, 100, 85} \cup Near(40) \cup Near(60) \cup Near(80)
MachineTemperatures == {0, 2000, 950} \cup Near(600) \cup Near(750) \cup Near(900)
MachineVibrations == {0, 1000, 350} \cup Near(150) \cup Near(200) \cup Near(300)
OilPressures == {0, 100, 15} \cup Near(20) \cup Near(30)

FailureTemperatures == {0, 2000, 950} \cup Near(800)
FailureVibrations == {0, 1000, 350} \cup Near(250)
FailureOilPressures == {0, 100, 15} \cup Near(25)

Scores == 0..100

Idle == [fn |-> "idle"]

Pending(f, a) == [fn |-> f, arg |-> a, done |-> FALSE]

Returned(c, v) == [fn |-> c.fn, arg |-> c.arg, done |-> TRUE, ret |-> v]

EmptyDb ==
    /\ workers = <<>>
    /\ worker_vitals = <<>>
    /\ machines = <<>>
    /\ machine_telemetry = <<>>
    /\ background_tasks = <<>>
    /\ last = [op |-> "none"]

ScoreInit ==
    /\ EmptyDb
    /\ \/ \E hr \in HeartRates, hrv \in Hrvs, temp \in WorkerTemperatures,
              jerk \in JerkCounts, stress \in WorkerStressIndexes :
              call = Pending("calculate_cis_score",
                             WorkerVitalsCreate("WK-1", hr, hrv, temp, jerk, stress, 80))
       \/ \E score \in Scores :
              call = Pending("determine_risk_state", score)
       \/ \E stress \in MachineStressIndexes, temp \in MachineTemperatures,
              vib \in MachineVibrations, oil \in OilPressures :
              call = Pending("calculate_health_score",
                             MachineTelemetryCreate("MCH-1", "OPERATIONAL", stress, temp,
                                                    vib, 65, 78, oil))
       \/ \E h \in Scores, temp \in FailureTemperatures,
              vib \in FailureVibrations, oil \in FailureOilPressures :
              call = Pending("calculate_failure_probability",
                             <<h, MachineTelemetryCreate("MCH-1", "OPERATIONAL", 45, temp,
                                                         vib, 65, 78, oil)>>)
       \/ \E h \in Scores, p \in Scores :
              call = Pending("determine_status", <<h, p>>)

db == <<workers, worker_vitals, machines, machine_telemetry, background_tasks, last>>

IsPending(f) == call.fn = f /\ ~call.done

ApplyCis ==
    /\ IsPending("calculate_cis_score")
    /\ call' = Returned(call, calculate_cis_score(call.arg))
    /\ UNCHANGED db

ApplyRisk ==
    /\ IsPending("determine_risk_state")
    /\ call' = Returned(call, determine_risk_state(call.arg))
    /\ UNCHANGED db

ApplyHealth ==
    /\ IsPending("calculate_health_score")
    /\ call' = Returned(call, calculate_health_score(call.arg))
    /\ UNCHANGED db

ApplyFailure ==
    /\ IsPending("calculate_failure_probability")
    /\ call' = Returned(call, calculate_failure_probability(call.arg[1], call.arg[2]))
    /\ UNCHANGED db

ApplyStatus ==
    /\ IsPending("determine_status")
    /\ call' = Returned(call, determine_status(call.arg[1], call.arg[2]))
    /\ UNCHANGED db

ScoreNext == ApplyCis \/ ApplyRisk \/ ApplyHealth \/ ApplyFailure \/ ApplyStatus

SpecScore == ScoreInit /\ [][ScoreNext]_vars

HasReturned(f) == call.fn = f /\ call.done

(***************************************************************************)
(* The database and the request handlers.  workers and machines are the    *)
(* tables in insertion order; worker_vitals and machine_telemetry are the  *)
(* history tables in commit order, which is the order of their timestamps; *)
(* background_tasks is the queue of BackgroundTasks.add_task; last is the  *)
(* last request with its response.  A handler has no await before its      *)
(* return, so each is one step.                                            *)
(***************************************************************************)

Range(seq) == {seq[i] : i \in DOMAIN seq}

Response(op, request, code, body) ==
    [op |-> op, request |-> request, code |-> code, body |-> body]

\* db.query(Worker).filter(Worker.worker_id == worker_id).first()
WorkerExists(worker_id) == \E w \in Range(workers) : w.worker_id = worker_id

\* db.query(Machine).filter(Machine.machine_id == machine_id).first()
MachineExists(machine_id) == \E m \in Range(machines) : m.machine_id = machine_id

MachineOf(machine_id) == CHOOSE m \in Range(machines) : m.machine_id = machine_id

VitalsOf(worker_id) ==
    {i \in DOMAIN worker_vitals : worker_vitals[i].worker_id = worker_id}

TelemetryOf(machine_id) ==
    {i \in DOMAIN machine_telemetry : machine_telemetry[i].machine_id = machine_id}

\* Mutant: the row read is the one that was newest before the last commit for
\* the entity, as a handler suspended between its read and its commit sees it.
Newest_overtaken(I) ==
    LET newest == CHOOSE i \in I : \A j \in I : j <= i
        earlier == I \ {newest}
    IN  IF earlier = {} THEN newest ELSE CHOOSE i \in earlier : \A j \in earlier : j <= i

\* Mutant: the query orders by ascending timestamp.
Newest_ascending(I) == CHOOSE i \in I : \A j \in I : i <= j

Newest(I) == CHOOSE i \in I : \A j \in I : j <= i

\* .order_by(desc(WorkerVitals.timestamp)).first()
LatestVitals(worker_id) == worker_vitals[Newest(VitalsOf(worker_id))]

\* .order_by(MachineTelemetry.timestamp.desc()).first()
LatestTelemetry(machine_id) == machine_telemetry[Newest(TelemetryOf(machine_id))]

\* Field constraints of WorkerVitalsCreate
ValidWorkerVitals(vitals) ==
    /\ vitals.heart_rate >= 40 /\ vitals.heart_rate <= 220
    /\ vitals.hrv >= 0 /\ vitals.hrv <= 200
    /\ vitals.temperature >= 300 /\ vitals.temperature <= 450
    /\ vitals.jerk_count >= 0
    /\ vitals.machine_stress_index >= 0 /\ vitals.machine_stress_index <= 100
    /\ vitals.vibration_rms >= 0

MachineStatus == {"OPERATIONAL", "WARNING", "MAINTENANCE", "OFFLINE"}

\* Field constraints of MachineTelemetryCreate
ValidMachineTelemetry(telemetry) ==
    /\ telemetry.status \in MachineStatus
    /\ telemetry.stress_index >= 0 /\ telemetry.stress_index <= 100
    /\ telemetry.temperature >= 0 /\ telemetry.temperature <= 2000
    /\ telemetry.vibration_rms >= 0
    /\ telemetry.operating_hours >= 0
    /\ telemetry.fuel_level >= 0 /\ telemetry.fuel_level <= 100
    /\ telemetry.oil_pressure >= 0 /\ telemetry.oil_pressure <= 100

\* WorkerVitals(worker_id=..., heart_rate=..., ..., break_flag=False)
WorkerVitals(worker_id, v, cis_score, risk_state) ==
    [worker_id |-> worker_id,
     heart_rate |-> v.heart_rate,
     hrv |-> v.hrv,
     temperature |-> v.temperature,
     jerk_count |-> v.jerk_count,
     machine_stress_index |-> v.machine_stress_index,
     vibration_rms |-> v.vibration_rms,
     cis_score |-> cis_score,
     risk_state |-> risk_state,
     break_flag |-> FALSE]

\* Mutant: the row keeps the status of the request.
MachineTelemetry_client_status(telemetry, status, failure_prob, health_score, predicted_days) ==
    [machine_id |-> telemetry.machine_id,
     status |-> telemetry.status,
     stress_index |-> telemetry.stress_index,
     temperature |-> telemetry.temperature,
     vibration_rms |-> telemetry.vibration_rms,
     operating_hours |-> telemetry.operating_hours,
     fuel_level |-> telemetry.fuel_level,
     oil_pressure |-> telemetry.oil_pressure,
     failure_probability |-> failure_prob,
     health_score |-> health_score,
     predicted_maintenance_days |-> predicted_days]

\* MachineTelemetry(machine_id=..., status=status, ..., predicted_maintenance_days=...)
MachineTelemetry(telemetry, status, failure_prob, health_score, predicted_days) ==
    [machine_id |-> telemetry.machine_id,
     status |-> status,
     stress_index |-> telemetry.stress_index,
     temperature |-> telemetry.temperature,
     vibration_rms |-> telemetry.vibration_rms,
     operating_hours |-> telemetry.operating_hours,
     fuel_level |-> telemetry.fuel_level,
     oil_pressure |-> telemetry.oil_pressure,
     failure_probability |-> failure_prob,
     health_score |-> health_score,
     predicted_maintenance_days |-> predicted_days]

\* Mutant: the remaining margin is divided by 2.
predicted_days_halved(failure_prob) == Max(1, (100 - failure_prob) \div 2)

\* Mutant: the day count is not raised to 1.
predicted_days_unfloored(failure_prob) == (100 - failure_prob) \div 3

\* max(1, int((100 - failure_prob) / 3))
predicted_days(failure_prob) == Max(1, (100 - failure_prob) \div 3)

\* "Calculate health metrics" and "Create telemetry record" of the machine handlers
ScoredTelemetry(telemetry) ==
    LET health_score == calculate_health_score(telemetry)
        failure_prob == calculate_failure_probability(health_score, telemetry)
        status == determine_status(health_score, failure_prob)
    IN  MachineTelemetry(telemetry, status, failure_prob, health_score,
                         predicted_days(failure_prob))

(***************************************************************************)
(* Worker handlers (api/workers.py)                                        *)
(***************************************************************************)

\* Mutant: a worker is registered again under an id that exists.
register_worker_again(worker) ==
    LET db_worker == [worker_id |-> worker.worker_id, name |-> worker.name,
                      department |-> worker.department, is_active |-> TRUE]
    IN  /\ workers' = Append(workers, db_worker)
        /\ last' = Response("register_worker", worker, 200, db_worker)
        /\ UNCHANGED <<worker_vitals, machines, machine_telemetry, background_tasks, call>>

register_worker(worker) ==
    /\ IF WorkerExists(worker.worker_id)
       THEN /\ last' = Response("register_worker", worker, 400, "Worker already exists")
            /\ UNCHANGED workers
       ELSE LET db_worker == [worker_id |-> worker.worker_id, name |-> worker.name,
                              department |-> worker.department, is_active |-> TRUE]
            IN  /\ workers' = Append(workers, db_worker)
                /\ last' = Response("register_worker", worker, 200, db_worker)
    /\ UNCHANGED <<worker_vitals, machines, machine_telemetry, background_tasks, call>>

\* Mutant: vitals of an unregistered worker are refused.
create_worker_vitals_strict(vitals) ==
    /\ IF ~ValidWorkerVitals(vitals)
       THEN /\ last' = Response("create_worker_vitals", vitals, 422, "validation error")
            /\ UNCHANGED <<workers, worker_vitals>>
       ELSE IF ~WorkerExists(vitals.worker_id)
       THEN /\ last' = Response("create_worker_vitals", vitals, 404, "Worker not found")
            /\ UNCHANGED <<workers, worker_vitals>>
       ELSE LET cis_score == calculate_cis_score(vitals)
                risk_state == determine_risk_state(cis_score)
                db_vitals == WorkerVitals(vitals.worker_id, vitals, cis_score, risk_state)
            IN  /\ worker_vitals' = Append(worker_vitals, db_vitals)
                /\ last' = Response("create_worker_vitals", vitals, 200, db_vitals)
                /\ UNCHANGED workers
    /\ UNCHANGED <<machines, machine_telemetry, background_tasks, call>>

create_worker_vitals(vitals) ==
    /\ IF ~ValidWorkerVitals(vitals)
       THEN /\ last' = Response("create_worker_vitals", vitals, 422, "validation error")
            /\ UNCHANGED <<workers, worker_vitals>>
       ELSE LET cis_score == calculate_cis_score(vitals)
                risk_state == determine_risk_state(cis_score)
                db_vitals == WorkerVitals(vitals.worker_id, vitals, cis_score, risk_state)
            IN  /\ workers' =
                       IF WorkerExists(vitals.worker_id) THEN workers
                       ELSE Append(workers, [worker_id |-> vitals.worker_id, name |-> None,
                                             department |-> None, is_active |-> TRUE])
                /\ worker_vitals' = Append(worker_vitals, db_vitals)
                /\ last' = Response("create_worker_vitals", vitals, 200, db_vitals)
    /\ UNCHANGED <<machines, machine_telemetry, background_tasks, call>>

\* "Get latest vitals for incremental generation" and the generator call
SimulatedWorker(worker_id, target_state, u) ==
    IF VitalsOf(worker_id) # {}
    THEN LET latest == LatestVitals(worker_id)
             current_values ==
                 [heart_rate |-> latest.heart_rate,
                  hrv |-> latest.hrv,
                  temperature |-> latest.temperature,
                  machine_stress_index |-> latest.machine_stress_index]
         IN  generate_incremental_worker_telemetry(current_values, target_state, u)
    ELSE generate_comprehensive_worker_telemetry(NoValues, target_state, u)

\* With esp32_url the payload reads simulated["activity_metrics"], a key the
\* generator does not return: the KeyError is raised after the commit.
simulate_worker_vitals(worker_id, esp32_url, u) ==
    LET request == [worker_id |-> worker_id, esp32_url |-> esp32_url]
    IN  /\ IF ~WorkerExists(worker_id)
           THEN /\ last' = Response("simulate_worker_vitals", request, 404, "Worker not found")
                /\ UNCHANGED worker_vitals
           ELSE LET simulated == SimulatedWorker(worker_id, None, u)
                    db_vitals == WorkerVitals(worker_id, simulated, simulated.cis_score,
                                              simulated.risk_state)
                IN  /\ worker_vitals' = Append(worker_vitals, db_vitals)
                    /\ last' = IF esp32_url # None
                               THEN Response("simulate_worker_vitals", request, 500, "KeyError")
                               ELSE Response("simulate_worker_vitals", request, 200, db_vitals)
        /\ UNCHANGED <<workers, machines, machine_telemetry, background_tasks, call>>

\* .filter(Worker.is_active == True).limit(6).all(): the first six rows
ActiveWorkers ==
    LET active == SelectSeq(workers, LAMBDA w : w.is_active)
    IN  SubSeq(active, 1, Min(6, Len(active)))

\* us[i], cs[i]: the draws of the i-th worker's generator calls
simulate_all_workers(esp32_url, target_state, us, cs) ==
    LET request == [esp32_url |-> esp32_url, target_state |-> target_state]
        all == ActiveWorkers
        simulated == [i \in DOMAIN all |->
                          SimulatedWorker(all[i].worker_id, target_state, us[i])]
        results == [i \in DOMAIN all |->
                        WorkerVitals(all[i].worker_id, simulated[i], simulated[i].cis_score,
                                     simulated[i].risk_state)]
        payload(i) ==
            [machine |-> generate_correlated_machine_data(target_state, cs[i]),
             human |->
                 [cardiovascular |->
                      [heart_rate_bpm |-> simulated[i].physiological_status.heart_rate_bpm,
                       heart_rate_variability_ms |->
                           simulated[i].physiological_status.heart_rate_variability_ms,
                       hr_recovery_rate |-> 12],
                  motion_posture |-> simulated[i].motion_posture,
                  physiological_stress |-> simulated[i].environmental_stress,
                  behavioral |-> simulated[i].behavioral]]
    IN  /\ IF Len(all) = 0
           THEN /\ last' = Response("simulate_all_workers", request, 404,
                                    "No active workers found")
                /\ UNCHANGED <<worker_vitals, background_tasks>>
           ELSE /\ worker_vitals' = worker_vitals \o results
                /\ background_tasks' =
                       IF esp32_url # None
                       THEN Append(background_tasks,
                                   [func |-> "send_worker_to_esp32", esp32_url |-> esp32_url,
                                    data |-> payload(1)])
                       ELSE background_tasks
                /\ last' = Response("simulate_all_workers", request, 200,
                                    [workers |-> results, total |-> Len(results),
                                     last_esp32_payload |-> payload(Len(all))])
        /\ UNCHANGED <<workers, machines, machine_telemetry, call>>

\* The POST and its outcome are only printed.
send_worker_to_esp32 ==
    /\ background_tasks # <<>>
    /\ Head(background_tasks).func = "send_worker_to_esp32"
    /\ background_tasks' = Tail(background_tasks)
    /\ UNCHANGED <<workers, worker_vitals, machines, machine_telemetry, last, call>>

\* Mutant: the response is filled from the oldest vitals of the worker.
WorkerResponse_oldest(worker) ==
    LET I == VitalsOf(worker.worker_id)
        has == I # {}
        oldest_vitals == worker_vitals[CHOOSE i \in I : \A j \in I : i <= j]
        field(name) == IF has THEN oldest_vitals[name] ELSE None
    IN  [worker_id |-> worker.worker_id,
         name |-> worker.name,
         department |-> worker.department,
         is_active |-> worker.is_active,
         heart_rate |-> field("heart_rate"),
         hrv |-> field("hrv"),
         temperature |-> field("temperature"),
         jerk_count |-> field("jerk_count"),
         machine_stress_index |-> field("machine_stress_index"),
         vibration_rms |-> field("vibration_rms"),
         cis_score |-> field("cis_score"),
         risk_state |-> field("risk_state"),
         break_flag |-> field("break_flag")]

\* WorkerResponse(worker_id=..., ...) with the latest vitals flattened into it;
\* the Optional fields keep their default None when there are no vitals
WorkerResponse(worker) ==
    LET has == VitalsOf(worker.worker_id) # {}
        latest_vitals == LatestVitals(worker.worker_id)
        field(name) == IF has THEN latest_vitals[name] ELSE None
    IN  [worker_id |-> worker.worker_id,
         name |-> worker.name,
         department |-> worker.department,
         is_active |-> worker.is_active,
         heart_rate |-> field("heart_rate"),
         hrv |-> field("hrv"),
         temperature |-> field("temperature"),
         jerk_count |-> field("jerk_count"),
         machine_stress_index |-> field("machine_stress_index"),
         vibration_rms |-> field("vibration_rms"),
         cis_score |-> field("cis_score"),
         risk_state |-> field("risk_state"),
         break_flag |-> field("break_flag")]

get_workers(active_only) ==
    LET all == IF active_only THEN SelectSeq(workers, LAMBDA w : w.is_active)
               ELSE workers
        result == [i \in DOMAIN all |-> WorkerResponse(all[i])]
    IN  /\ last' = Response("get_workers", [active_only |-> active_only], 200,
                            [workers |-> result, total |-> Len(result),
                             last_esp32_payload |-> None])
        /\ UNCHANGED <<workers, worker_vitals, machines, machine_telemetry,
                       background_tasks, call>>

get_worker(worker_id) ==
    LET request == [worker_id |-> worker_id]
    IN  /\ last' =
               IF ~WorkerExists(worker_id)
               THEN Response("get_worker", request, 404, "Worker not found")
               ELSE Response("get_worker", request, 200,
                             WorkerResponse(CHOOSE w \in Range(workers) :
                                                w.worker_id = worker_id))
        /\ UNCHANGED <<workers, worker_vitals, machines, machine_telemetry,
                       background_tasks, call>>

\* The rows of the indices I of a history table, in timestamp order, without
\* the older rows: those with a timestamp before since
Since(table, I, older) ==
    LET n == Cardinality(I)
        nth[k \in 1..n] == CHOOSE i \in I : Cardinality({j \in I : j <= i}) = k
    IN  [k \in 1..(n - Min(older, n)) |-> table[nth[k + Min(older, n)]]]

\* older: the number of the worker's rows that are older than hours
get_worker_history(worker_id, older) ==
    LET request == [worker_id |-> worker_id, older |-> older]
    IN  /\ last' =
               IF ~WorkerExists(worker_id)
               THEN Response("get_worker_history", request, 404, "Worker not found")
               ELSE Response("get_worker_history", request, 200,
                             [worker_id |-> worker_id,
                              history |-> Since(worker_vitals, VitalsOf(worker_id), older)])
        /\ UNCHANGED <<workers, worker_vitals, machines, machine_telemetry,
                       background_tasks, call>>

\* Mutant: the flag is set on the newest row of the table, whose ever it is.
issue_break_newest_row(worker_id) ==
    LET request == [worker_id |-> worker_id]
    IN  /\ IF VitalsOf(worker_id) = {}
           THEN /\ last' = Response("issue_break", request, 404, "No vitals found for worker")
                /\ UNCHANGED worker_vitals
           ELSE /\ worker_vitals' =
                       [worker_vitals EXCEPT ![Len(worker_vitals)].break_flag = TRUE]
                /\ last' = Response("issue_break", request, 200, "success")
        /\ UNCHANGED <<workers, machines, machine_telemetry, background_tasks, call>>

\* Mutant: the flag is set on every row of the worker.
issue_break_every_row(worker_id) ==
    LET request == [worker_id |-> worker_id]
    IN  /\ IF VitalsOf(worker_id) = {}
           THEN /\ last' = Response("issue_break", request, 404, "No vitals found for worker")
                /\ UNCHANGED worker_vitals
           ELSE /\ worker_vitals' =
                       [i \in DOMAIN worker_vitals |->
                            IF i \in VitalsOf(worker_id)
                            THEN [worker_vitals[i] EXCEPT !.break_flag = TRUE]
                            ELSE worker_vitals[i]]
                /\ last' = Response("issue_break", request, 200, "success")
        /\ UNCHANGED <<workers, machines, machine_telemetry, background_tasks, call>>

\* latest_vitals.break_flag = True; db.commit()
issue_break(worker_id) ==
    LET request == [worker_id |-> worker_id]
    IN  /\ IF VitalsOf(worker_id) = {}
           THEN /\ last' = Response("issue_break", request, 404, "No vitals found for worker")
                /\ UNCHANGED worker_vitals
           ELSE /\ worker_vitals' =
                       [worker_vitals EXCEPT ![Newest(VitalsOf(worker_id))].break_flag = TRUE]
                /\ last' = Response("issue_break", request, 200, "success")
        /\ UNCHANGED <<workers, machines, machine_telemetry, background_tasks, call>>

(***************************************************************************)
(* Machine handlers (api/machines.py)                                      *)
(***************************************************************************)

register_machine(machine) ==
    /\ IF MachineExists(machine.machine_id)
       THEN /\ last' = Response("register_machine", machine, 400, "Machine already exists")
            /\ UNCHANGED machines
       ELSE LET db_machine == [machine_id |-> machine.machine_id, name |-> machine.name,
                               type |-> machine.type, is_active |-> TRUE]
            IN  /\ machines' = Append(machines, db_machine)
                /\ last' = Response("register_machine", machine, 200, db_machine)
    /\ UNCHANGED <<workers, worker_vitals, machine_telemetry, background_tasks, call>>

create_machine_telemetry(telemetry) ==
    /\ IF ~ValidMachineTelemetry(telemetry)
       THEN /\ last' = Response("create_machine_telemetry", telemetry, 422, "validation error")
            /\ UNCHANGED machine_telemetry
       ELSE IF ~MachineExists(telemetry.machine_id)
       THEN /\ last' = Response("create_machine_telemetry", telemetry, 404, "not registered")
            /\ UNCHANGED machine_telemetry
       ELSE LET db_telemetry == ScoredTelemetry(telemetry)
            IN  /\ machine_telemetry' = Append(machine_telemetry, db_telemetry)
                /\ last' = Response("create_machine_telemetry", telemetry, 200, db_telemetry)
    /\ UNCHANGED <<workers, worker_vitals, machines, background_tasks, call>>

\* "Get the latest telemetry to base increments on" and the generator call
SimulatedMachine(machine, target_state, u) ==
    IF TelemetryOf(machine.machine_id) # {}
    THEN LET latest_telemetry == LatestTelemetry(machine.machine_id)
             current_values ==
                 [temperature |-> latest_telemetry.temperature,
                  vibration_rms |-> latest_telemetry.vibration_rms,
                  stress_index |-> latest_telemetry.stress_index,
                  fuel_level |-> latest_telemetry.fuel_level,
                  oil_pressure |-> latest_telemetry.oil_pressure,
                  operating_hours |-> latest_telemetry.operating_hours]
         IN  generate_incremental_telemetry(machine.type, current_values, target_state, u)
    ELSE generate_comprehensive_telemetry(ProfileOf(machine.type), NoValues, target_state, u)

\* MachineTelemetryCreate(machine_id=..., stress_index=..., ...): status takes
\* its default
TelemetryInput(machine_id, simulated_data) ==
    MachineTelemetryCreate(machine_id, "OPERATIONAL", simulated_data.stress_index,
                           simulated_data.temperature, simulated_data.vibration_rms,
                           simulated_data.operating_hours, simulated_data.fuel_level,
                           simulated_data.oil_pressure)

Esp32Payload(machine, simulated_data) ==
    [machine_id |-> machine.machine_id,
     machine_type |-> machine.type,
     machine_name |-> machine.name,
     machine |->
         [operational_intensity |-> simulated_data.operational_intensity,
          mechanical_stress |-> simulated_data.mechanical_stress,
          thermal_stress |-> simulated_data.thermal_stress,
          usage_fatigue |-> simulated_data.usage_fatigue,
          health_context |-> simulated_data.health_context]]

simulate_machine_telemetry(machine_id, esp32_url, target_state, u) ==
    LET request == [machine_id |-> machine_id, esp32_url |-> esp32_url,
                    target_state |-> target_state]
    IN  /\ IF ~MachineExists(machine_id)
           THEN /\ last' = Response("simulate_machine_telemetry", request, 404, "not found")
                /\ UNCHANGED <<machine_telemetry, background_tasks>>
           ELSE LET machine == MachineOf(machine_id)
                    simulated_data == SimulatedMachine(machine, target_state, u)
                    telemetry_input == TelemetryInput(machine_id, simulated_data)
                    db_telemetry == ScoredTelemetry(telemetry_input)
                IN  IF ~ValidMachineTelemetry(telemetry_input)
                    THEN /\ last' = Response("simulate_machine_telemetry", request, 500,
                                             "ValidationError")
                         /\ UNCHANGED <<machine_telemetry, background_tasks>>
                    ELSE /\ machine_telemetry' = Append(machine_telemetry, db_telemetry)
                         /\ background_tasks' =
                                IF esp32_url # None
                                THEN Append(background_tasks,
                                            [func |-> "send_to_esp32", esp32_url |-> esp32_url,
                                             data |-> Esp32Payload(machine, simulated_data)])
                                ELSE background_tasks
                         /\ last' = Response("simulate_machine_telemetry", request, 200,
                                             db_telemetry)
        /\ UNCHANGED <<workers, worker_vitals, machines, call>>

\* .filter(Machine.is_active == True).all()
ActiveMachines == SelectSeq(machines, LAMBDA m : m.is_active)

\* us[i]: the draws of the i-th machine's generator call.  The response model
\* has no last_esp32_payload field, so the response carries machines and total.
simulate_all_machines(esp32_url, target_state, us) ==
    LET request == [esp32_url |-> esp32_url, target_state |-> target_state]
        all == ActiveMachines
        simulated_data == [i \in DOMAIN all |->
                               SimulatedMachine(all[i], target_state, us[i])]
        telemetry_input == [i \in DOMAIN all |->
                                TelemetryInput(all[i].machine_id, simulated_data[i])]
        result == [i \in DOMAIN all |-> ScoredTelemetry(telemetry_input[i])]
        tasks == [i \in DOMAIN all |->
                      [func |-> "send_to_esp32", esp32_url |-> esp32_url,
                       data |-> Esp32Payload(all[i], simulated_data[i])]]
    IN  /\ IF Len(all) = 0
           THEN /\ last' = Response("simulate_all_machines", request, 404,
                                    "No active machines found")
                /\ UNCHANGED <<machine_telemetry, background_tasks>>
           ELSE IF \E i \in DOMAIN all : ~ValidMachineTelemetry(telemetry_input[i])
           THEN /\ last' = Response("simulate_all_machines", request, 500, "ValidationError")
                /\ UNCHANGED <<machine_telemetry, background_tasks>>
           ELSE /\ machine_telemetry' = machine_telemetry \o result
                /\ background_tasks' =
                       IF esp32_url # None THEN background_tasks \o tasks
                       ELSE background_tasks
                /\ last' = Response("simulate_all_machines", request, 200,
                                    [machines |-> result, total |-> Len(result)])
        /\ UNCHANGED <<workers, worker_vitals, machines, call>>

\* The POST and its outcome are only printed.
send_to_esp32 ==
    /\ background_tasks # <<>>
    /\ Head(background_tasks).func = "send_to_esp32"
    /\ background_tasks' = Tail(background_tasks)
    /\ UNCHANGED <<workers, worker_vitals, machines, machine_telemetry, last, call>>

\* MachineResponse(machine_id=..., ...) with the latest telemetry flattened
\* into it (model and serial_number are never set)
MachineResponse(machine) ==
    LET has == TelemetryOf(machine.machine_id) # {}
        latest_telemetry == LatestTelemetry(machine.machine_id)
        field(name) == IF has THEN latest_telemetry[name] ELSE None
    IN  [machine_id |-> machine.machine_id,
         name |-> machine.name,
         type |-> machine.type,
         is_active |-> machine.is_active,
         status |-> field("status"),
         stress_index |-> field("stress_index"),
         temperature |-> field("temperature"),
         vibration_rms |-> field("vibration_rms"),
         operating_hours |-> field("operating_hours"),
         fuel_level |-> field("fuel_level"),
         oil_pressure |-> field("oil_pressure"),
         failure_probability |-> field("failure_probability"),
         health_score |-> field("health_score"),
         predicted_maintenance_days |-> field("predicted_maintenance_days")]

get_machines(active_only) ==
    LET all == IF active_only THEN SelectSeq(machines, LAMBDA m : m.is_active)
               ELSE machines
        result == [i \in DOMAIN all |-> MachineResponse(all[i])]
    IN  /\ last' = Response("get_machines", [active_only |-> active_only], 200,
                            [machines |-> result, total |-> Len(result)])
        /\ UNCHANGED <<workers, worker_vitals, machines, machine_telemetry,
                       background_tasks, call>>

get_machine(machine_id) ==
    LET request == [machine_id |-> machine_id]
    IN  /\ last' =
               IF ~MachineExists(machine_id)
               THEN Response("get_machine", request, 404, "Machine not found")
               ELSE Response("get_machine", request, 200,
                             MachineResponse(MachineOf(machine_id)))
        /\ UNCHANGED <<workers, worker_vitals, machines, machine_telemetry,
                       background_tasks, call>>

\* older: the number of the machine's rows that are older than hours
get_machine_history(machine_id, older) ==
    LET request == [machine_id |-> machine_id, older |-> older]
    IN  /\ last' =
               IF ~MachineExists(machine_id)
               THEN Response("get_machine_history", request, 404, "Machine not found")
               ELSE Response("get_machine_history", request, 200,
                             [machine_id |-> machine_id,
                              history |-> Since(machine_telemetry, TelemetryOf(machine_id),
                                                older)])
        /\ UNCHANGED <<workers, worker_vitals, machines, machine_telemetry,
                       background_tasks, call>>

(***************************************************************************)
(* Dashboard (api/dashboard.py)                                            *)
(***************************************************************************)

\* Mutant: an entity is counted under a category if any of its entries has it.
get_dashboard_stats_any_entry ==
    LET active_workers == SelectSeq(workers, LAMBDA w : w.is_active)
        risk(states) ==
            Cardinality({i \in DOMAIN active_workers :
                            \E j \in VitalsOf(active_workers[i].worker_id) :
                                worker_vitals[j].risk_state \in states})
        high_risk == risk({"HIGH"})
        medium_risk == risk({"MEDIUM"})
        low_risk == risk({"LOW"})
        active_machines == SelectSeq(machines, LAMBDA m : m.is_active)
        status(states) ==
            Cardinality({i \in DOMAIN active_machines :
                            \E j \in TelemetryOf(active_machines[i].machine_id) :
                                machine_telemetry[j].status \in states})
        operational == status({"OPERATIONAL"})
        warning == status({"WARNING"})
        maintenance == status(MachineStatus \ {"OPERATIONAL", "WARNING"})
        system_status == IF high_risk > 2 \/ maintenance > 1 THEN "DEGRADED" ELSE "ONLINE"
    IN  /\ last' = Response("get_dashboard_stats", None, 200,
                            [system_status |-> system_status,
                             total_active_workers |-> Len(active_workers),
                             high_risk_count |-> high_risk,
                             medium_risk_count |-> medium_risk,
                             low_risk_count |-> low_risk,
                             total_machines |-> Len(active_machines),
                             machines_operational |-> operational,
                             machines_warning |-> warning,
                             machines_maintenance |-> maintenance])
        /\ UNCHANGED <<workers, worker_vitals, machines, machine_telemetry,
                       background_tasks, call>>

get_dashboard_stats ==
    LET active_workers == SelectSeq(workers, LAMBDA w : w.is_active)
        risk(states) ==
            Cardinality({i \in DOMAIN active_workers :
                            /\ VitalsOf(active_workers[i].worker_id) # {}
                            /\ LatestVitals(active_workers[i].worker_id).risk_state
                                   \in states})
        high_risk == risk({"HIGH"})
        medium_risk == risk({"MEDIUM"})
        low_risk == risk({"LOW"})
        active_machines == SelectSeq(machines, LAMBDA m : m.is_active)
        status(states) ==
            Cardinality({i \in DOMAIN active_machines :
                            /\ TelemetryOf(active_machines[i].machine_id) # {}
                            /\ LatestTelemetry(active_machines[i].machine_id).status
                                   \in states})
        operational == status({"OPERATIONAL"})
        warning == status({"WARNING"})
        maintenance == status(MachineStatus \ {"OPERATIONAL", "WARNING"})
        system_status == IF high_risk > 2 \/ maintenance > 1 THEN "DEGRADED" ELSE "ONLINE"
    IN  /\ last' = Response("get_dashboard_stats", None, 200,
                            [system_status |-> system_status,
                             total_active_workers |-> Len(active_workers),
                             high_risk_count |-> high_risk,
                             medium_risk_count |-> medium_risk,
                             low_risk_count |-> low_risk,
                             total_machines |-> Len(active_machines),
                             machines_operational |-> operational,
                             machines_warning |-> warning,
                             machines_maintenance |-> maintenance])
        /\ UNCHANGED <<workers, worker_vitals, machines, machine_telemetry,
                       background_tasks, call>>

(***************************************************************************)
(* The system under a bounded client: the requests and the draws it sees   *)
(***************************************************************************)

MaxEntries == 2

Esp32Urls == {None, "http://esp32/compute"}
TargetStates == {None, "poor"}

WorkerCreate(worker_id) == [worker_id |-> worker_id, name |-> None, department |-> None]

MachineCreate(machine_id, type) ==
    [machine_id |-> machine_id, name |-> machine_id, type |-> type]

\* readings posted by a device: the documented worst case (raw penalty sum
\* 120), a nominal one, one in the middle band, and one out of the domain
VitalsPosted(worker_id) ==
    {WorkerVitalsCreate(worker_id, 130, 15, 390, 5, 80, 80),
     WorkerVitalsCreate(worker_id, 85, 45, 368, 2, 35, 80),
     WorkerVitalsCreate(worker_id, 110, 30, 380, 0, 60, 120),
     WorkerVitalsCreate(worker_id, 39, 45, 368, 2, 35, 80)}

TelemetryPosted(machine_id) ==
    {MachineTelemetryCreate(machine_id, "OFFLINE", 85, 950, 350, 65, 78, 15),
     MachineTelemetryCreate(machine_id, "OPERATIONAL", 45, 625, 120, 65, 78, 42),
     MachineTelemetryCreate(machine_id, "MAINTENANCE", 65, 780, 210, 4, 0, 25),
     MachineTelemetryCreate(machine_id, "WARNING", 45, 2001, 120, 65, 78, 42)}

WorkerDraw(f, b) ==
    [hr |-> f, hrv |-> 4 - f, temp |-> f, move |-> f, jerk |-> b, work |-> f, shift |-> f]

\* every quantity low, middle or high together, hrv against the others
WorkerStreams == <<WorkerDraw(0, FALSE), WorkerDraw(2, FALSE), WorkerDraw(4, TRUE)>>

CorrelatedDraw(f, b) ==
    [actuator |-> f, torque |-> f, duty |-> f, vib |-> f, rpm |-> f, temp_eng |-> f,
     temp_oil |-> f, shock |-> b, hours |-> f, minutes |-> f, health |-> f]

CorrelatedStreams == <<CorrelatedDraw(0, FALSE), CorrelatedDraw(4, TRUE)>>

MachineDraw(f, g, b, s) ==
    [actuator |-> f, torque |-> f, duty |-> f, vib |-> f, shock |-> b, rpm |-> f,
     temp |-> f, oil_temp |-> g, hours_total |-> g, minutes |-> g, fuel |-> g,
     oil |-> 4 - f, slack |-> s, hslack |-> s]

MachineStreams ==
    <<MachineDraw(0, 0, FALSE, FALSE), MachineDraw(2, 3, FALSE, TRUE),
      MachineDraw(4, 4, TRUE, TRUE)>>

\* the draws of one simulate-all request over n rows: the streams in turn,
\* from any one of them on
InTurn(n, streams) ==
    {[i \in 1..n |-> streams[((i + k - 2) % Len(streams)) + 1]] : k \in DOMAIN streams}

Init ==
    /\ EmptyDb
    /\ call = Idle

\* The client stops appending at MaxEntries history rows, and asks for a
\* delivery to the ESP32 only when the earlier ones are done.
Room(entries) == Len(worker_vitals) + Len(machine_telemetry) + entries <= MaxEntries

MayDeliver(esp32_url) == esp32_url = None \/ background_tasks = <<>>

\* One worker and one machine, of the type with the widest profile.
WorkerIds == {"WK-1"}
MachineIds == {"MCH-1"}
MachinesRegistered == {MachineCreate("MCH-1", "DRILL")}

Next ==
    \/ \E worker_id \in WorkerIds : register_worker(WorkerCreate(worker_id))
    \/ \E worker_id \in WorkerIds : \E vitals \in VitalsPosted(worker_id) :
           Room(1) /\ create_worker_vitals(vitals)
    \/ \E worker_id \in WorkerIds, esp32_url \in Esp32Urls, u \in Range(WorkerStreams) :
           Room(1) /\ simulate_worker_vitals(worker_id, esp32_url, u)
    \/ \E esp32_url \in Esp32Urls, target_state \in TargetStates :
           \E us \in InTurn(Len(ActiveWorkers), WorkerStreams) :
               \E cs \in InTurn(Len(ActiveWorkers), CorrelatedStreams) :
                   /\ Room(Len(ActiveWorkers)) /\ MayDeliver(esp32_url)
                   /\ simulate_all_workers(esp32_url, target_state, us, cs)
    \/ send_worker_to_esp32
    \/ \E machine \in MachinesRegistered : register_machine(machine)
    \/ \E machine_id \in MachineIds : \E telemetry \in TelemetryPosted(machine_id) :
           Room(1) /\ create_machine_telemetry(telemetry)
    \/ \E machine_id \in MachineIds, esp32_url \in Esp32Urls,
          target_state \in TargetStates, u \in Range(MachineStreams) :
           /\ Room(1) /\ MayDeliver(esp32_url)
           /\ simulate_machine_telemetry(machine_id, esp32_url, target_state, u)
    \/ \E esp32_url \in Esp32Urls, target_state \in TargetStates :
           \E us \in InTurn(Len(ActiveMachines), MachineStreams) :
               /\ Room(Len(ActiveMachines)) /\ MayDeliver(esp32_url)
               /\ simulate_all_machines(esp32_url, target_state, us)
    \/ send_to_esp32

Spec == Init /\ [][Next]_vars

\* The machine side alone, with two machines of different types.
FleetIds == {"MCH-1", "MCH-2"}
FleetRegistered == {MachineCreate("MCH-1", "CRANE"), MachineCreate("MCH-2", "DRILL")}

FleetNext ==
    \/ \E machine \in FleetRegistered : register_machine(machine)
    \/ \E machine_id \in FleetIds : \E telemetry \in TelemetryPosted(machine_id) :
           Room(1) /\ create_machine_telemetry(telemetry)
    \/ \E machine_id \in FleetIds, esp32_url \in Esp32Urls,
          target_state \in TargetStates, u \in Range(MachineStreams) :
           /\ Room(1) /\ MayDeliver(esp32_url)
           /\ simulate_machine_telemetry(machine_id, esp32_url, target_state, u)
    \/ \E esp32_url \in Esp32Urls, target_state \in TargetStates :
           \E us \in InTurn(Len(ActiveMachines), MachineStreams) :
               /\ Room(Len(ActiveMachines)) /\ MayDeliver(esp32_url)
               /\ simulate_all_machines(esp32_url, target_state, us)
    \/ send_to_esp32

SpecFleet == Init /\ [][FleetNext]_vars

(***************************************************************************)
(* Generation and ingestion at the ends of the declared domains: every     *)
(* target state, readings on the bounds of the request schemas, and        *)
(* readings with one field just outside them.                              *)
(***************************************************************************)

AllTargetStates == {None, "good", "fair", "poor"}

\* the lowest and the highest reading WorkerVitalsCreate accepts (jerk_count
\* and vibration_rms have no upper bound)
VitalsAtEdge(worker_id) ==
    {WorkerVitalsCreate(worker_id, 40, 0, 300, 0, 0, 0),
     WorkerVitalsCreate(worker_id, 220, 200, 450, MaxJerk, 100, 2000)}

\* one field of a nominal reading moved past a bound of WorkerVitalsCreate
VitalsOutOfBounds(worker_id) ==
    LET nominal == WorkerVitalsCreate(worker_id, 85, 45, 368, 2, 35, 80)
    IN  {[nominal EXCEPT !.heart_rate = 39], [nominal EXCEPT !.heart_rate = 221],
         [nominal EXCEPT !.hrv = -1], [nominal EXCEPT !.hrv = 201],
         [nominal EXCEPT !.temperature = 299], [nominal EXCEPT !.temperature = 451],
         [nominal EXCEPT !.jerk_count = -1],
         [nominal EXCEPT !.machine_stress_index = -1],
         [nominal EXCEPT !.machine_stress_index = 101],
         [nominal EXCEPT !.vibration_rms = -1]}

\* the lowest and the highest reading MachineTelemetryCreate accepts
\* (vibration_rms and operating_hours have no upper bound)
TelemetryAtEdge(machine_id) ==
    {MachineTelemetryCreate(machine_id, "OPERATIONAL", 0, 0, 0, 0, 0, 0),
     MachineTelemetryCreate(machine_id, "OPERATIONAL", 100, 2000, 2000, 240, 100, 100)}

\* one field of a nominal reading moved past a bound of MachineTelemetryCreate
TelemetryOutOfBounds(machine_id) ==
    LET nominal == MachineTelemetryCreate(machine_id, "OPERATIONAL", 45, 625, 120, 65, 78, 42)
    IN  {[nominal EXCEPT !.stress_index = -1], [nominal EXCEPT !.stress_index = 101],
         [nominal EXCEPT !.temperature = -1], [nominal EXCEPT !.temperature = 2001],
         [nominal EXCEPT !.vibration_rms = -1],
         [nominal EXCEPT !.operating_hours = -1],
         [nominal EXCEPT !.fuel_level = -1], [nominal EXCEPT !.fuel_level = 101],
         [nominal EXCEPT !.oil_pressure = -1], [nominal EXCEPT !.oil_pressure = 101]}

\* draws at the two ends of every interval
WorkerEnds == {WorkerDraw(0, FALSE), WorkerDraw(4, TRUE)}
MachineEnds == {MachineDraw(0, 0, FALSE, FALSE), MachineDraw(4, 4, TRUE, TRUE)}

IngestNext ==
    \/ \E worker_id \in WorkerIds : register_worker(WorkerCreate(worker_id))
    \/ \E worker_id \in WorkerIds : \E vitals \in VitalsAtEdge(worker_id) :
           Room(1) /\ create_worker_vitals(vitals)
    \/ \E worker_id \in WorkerIds : \E vitals \in VitalsOutOfBounds(worker_id) :
           create_worker_vitals(vitals)
    \/ \E worker_id \in WorkerIds, u \in WorkerEnds :
           Room(1) /\ simulate_worker_vitals(worker_id, None, u)
    \/ \E target_state \in AllTargetStates, u \in WorkerEnds :
           /\ Room(Len(ActiveWorkers))
           /\ simulate_all_workers(None, target_state,
                                   [i \in 1..Len(ActiveWorkers) |-> u],
                                   [i \in 1..Len(ActiveWorkers) |-> CorrelatedStreams[1]])
    \/ \E machine \in MachinesRegistered : register_machine(machine)
    \/ \E machine_id \in MachineIds : \E telemetry \in TelemetryAtEdge(machine_id) :
           Room(1) /\ create_machine_telemetry(telemetry)
    \/ \E machine_id \in MachineIds : \E telemetry \in TelemetryOutOfBounds(machine_id) :
           create_machine_telemetry(telemetry)
    \/ \E machine_id \in MachineIds, target_state \in AllTargetStates, u \in MachineEnds :
           Room(1) /\ simulate_machine_telemetry(machine_id, None, target_state, u)
    \/ \E target_state \in AllTargetStates, u \in MachineEnds :
           /\ Room(Len(ActiveMachines))
           /\ simulate_all_machines(None, target_state,
                                    [i \in 1..Len(ActiveMachines) |-> u])

SpecIngest == Init /\ [][IngestNext]_vars

(***************************************************************************)
(* Successive incremental generation: readings posted at the ends of the   *)
(* request schemas or in the middle of them, followed by simulate requests *)
(* without target_state.                                                   *)
(***************************************************************************)

MaxSteps == 3

RoomFor(entries) == Len(worker_vitals) + Len(machine_telemetry) + entries <= MaxSteps

VitalsNominal(worker_id) == WorkerVitalsCreate(worker_id, 85, 45, 368, 2, 35, 80)

TelemetryNominal(machine_id) ==
    MachineTelemetryCreate(machine_id, "OPERATIONAL", 45, 625, 120, 65, 78, 42)

DriftNext ==
    \/ \E worker_id \in WorkerIds : register_worker(WorkerCreate(worker_id))
    \/ \E worker_id \in WorkerIds :
           \E vitals \in VitalsAtEdge(worker_id) \cup {VitalsNominal(worker_id)} :
               RoomFor(1) /\ create_worker_vitals(vitals)
    \/ \E worker_id \in WorkerIds, u \in Range(WorkerStreams) :
           RoomFor(1) /\ simulate_worker_vitals(worker_id, None, u)
    \/ \E us \in InTurn(Len(ActiveWorkers), WorkerStreams) :
           /\ RoomFor(Len(ActiveWorkers))
           /\ simulate_all_workers(None, None, us,
                                   [i \in 1..Len(ActiveWorkers) |-> CorrelatedStreams[1]])
    \/ \E machine \in MachinesRegistered : register_machine(machine)
    \/ \E machine_id \in MachineIds :
           \E telemetry \in TelemetryAtEdge(machine_id) \cup {TelemetryNominal(machine_id)} :
               RoomFor(1) /\ create_machine_telemetry(telemetry)
    \/ \E machine_id \in MachineIds, u \in Range(MachineStreams) :
           RoomFor(1) /\ simulate_machine_telemetry(machine_id, None, None, u)
    \/ \E us \in InTurn(Len(ActiveMachines), MachineStreams) :
           /\ RoomFor(Len(ActiveMachines))
           /\ simulate_all_machines(None, None, us)

SpecDrift == Init /\ [][DriftNext]_vars

(***************************************************************************)
(* Cold starts: a machine of any type, simulated while it has no history.  *)
(***************************************************************************)

AnyMachineCreate == {MachineCreate(machine_id, type) : machine_id \in MachineIds,
                                                       type \in MachineTypes}

\* every combination of a quarter for the stress terms, a quarter for the
\* usage and fuel draws, a shock and the float outcome
MachineDraws == {MachineDraw(f, g, b, c) : f \in Quarters, g \in Quarters,
                                           b \in BOOLEAN, c \in BOOLEAN}

ColdStartNext ==
    \/ \E machine \in AnyMachineCreate : register_machine(machine)
    \/ \E machine_id \in MachineIds, u \in MachineDraws :
           /\ TelemetryOf(machine_id) = {}
           /\ simulate_machine_telemetry(machine_id, None, None, u)
    \/ \E u \in Range(MachineStreams) :
           /\ \A i \in DOMAIN ActiveMachines : TelemetryOf(ActiveMachines[i].machine_id) = {}
           /\ simulate_all_machines(None, None, [i \in 1..Len(ActiveMachines) |-> u])

SpecColdStart == Init /\ [][ColdStartNext]_vars

(***************************************************************************)
(* Targeted generation: simulate requests with target_state good, fair or  *)
(* poor, for entities with no history, with a posted reading at an end of  *)
(* the request schema, or with an earlier targeted reading.                *)
(***************************************************************************)

Targets == {"good", "fair", "poor"}

TargetNext ==
    \/ \E worker_id \in WorkerIds : register_worker(WorkerCreate(worker_id))
    \/ \E worker_id \in WorkerIds : \E vitals \in VitalsAtEdge(worker_id) :
           Room(1) /\ create_worker_vitals(vitals)
    \/ \E target_state \in Targets :
           \E us \in InTurn(Len(ActiveWorkers), WorkerStreams) :
               /\ Room(Len(ActiveWorkers))
               /\ simulate_all_workers(None, target_state, us,
                                       [i \in 1..Len(ActiveWorkers) |-> CorrelatedStreams[1]])
    \/ \E machine \in MachinesRegistered : register_machine(machine)
    \/ \E machine_id \in MachineIds : \E telemetry \in TelemetryAtEdge(machine_id) :
           Room(1) /\ create_machine_telemetry(telemetry)
    \/ \E machine_id \in MachineIds, esp32_url \in Esp32Urls, target_state \in Targets,
          u \in Range(MachineStreams) :
           Room(1) /\ simulate_machine_telemetry(machine_id, esp32_url, target_state, u)
    \/ \E esp32_url \in Esp32Urls, target_state \in Targets :
           \E us \in InTurn(Len(ActiveMachines), MachineStreams) :
               /\ Room(Len(ActiveMachines))
               /\ simulate_all_machines(esp32_url, target_state, us)

SpecTarget == Init /\ [][TargetNext]_vars

(***************************************************************************)
(* Two workers and two machines of one type, so that one state holds       *)
(* histories of different length with the same latest entry.               *)
(***************************************************************************)

PairWorkerIds == {"WK-1", "WK-2"}
PairMachineIds == {"MCH-1", "MCH-2"}
PairRegistered == {MachineCreate(machine_id, "DRILL") : machine_id \in PairMachineIds}

PairNext ==
    \/ \E worker_id \in PairWorkerIds : register_worker(WorkerCreate(worker_id))
    \/ \E worker_id \in PairWorkerIds :
           RoomFor(1) /\ create_worker_vitals(VitalsNominal(worker_id))
    \/ \E worker_id \in PairWorkerIds :
           RoomFor(1) /\ simulate_worker_vitals(worker_id, None, WorkerStreams[2])
    \/ \E machine \in PairRegistered : register_machine(machine)
    \/ \E machine_id \in PairMachineIds :
           RoomFor(1) /\ create_machine_telemetry(TelemetryNominal(machine_id))
    \/ \E machine_id \in PairMachineIds :
           RoomFor(1) /\ simulate_machine_telemetry(machine_id, None, None, MachineStreams[2])

SpecPair == Init /\ [][PairNext]_vars

(***************************************************************************)
(* The whole API for one worker and one machine: the writing handlers, the *)
(* break request, the reads and the dashboard.                             *)
(***************************************************************************)

\* number of rows a history request finds older than its window
Olders == {0, 1}

ApiNext ==
    \/ \E worker_id \in WorkerIds : register_worker(WorkerCreate(worker_id))
    \/ \E worker_id \in WorkerIds :
           \E vitals \in {VitalsNominal(worker_id),
                          WorkerVitalsCreate(worker_id, 130, 15, 390, 5, 80, 80)} :
               Room(1) /\ create_worker_vitals(vitals)
    \/ \E worker_id \in WorkerIds, u \in WorkerEnds :
           Room(1) /\ simulate_worker_vitals(worker_id, None, u)
    \/ \E target_state \in TargetStates, u \in WorkerEnds :
           /\ Room(Len(ActiveWorkers))
           /\ simulate_all_workers(None, target_state,
                                   [i \in 1..Len(ActiveWorkers) |-> u],
                                   [i \in 1..Len(ActiveWorkers) |-> CorrelatedStreams[1]])
    \/ \E worker_id \in WorkerIds : issue_break(worker_id)
    \/ \E active_only \in BOOLEAN : get_workers(active_only)
    \/ \E worker_id \in WorkerIds : get_worker(worker_id)
    \/ \E worker_id \in WorkerIds, older \in Olders : get_worker_history(worker_id, older)
    \/ \E machine \in MachinesRegistered : register_machine(machine)
    \/ \E machine_id \in MachineIds :
           \E telemetry \in {TelemetryNominal(machine_id),
                             MachineTelemetryCreate(machine_id, "OFFLINE",
                                                    85, 950, 350, 65, 78, 15)} :
               Room(1) /\ create_machine_telemetry(telemetry)
    \/ \E machine_id \in MachineIds, target_state \in TargetStates, u \in MachineEnds :
           Room(1) /\ simulate_machine_telemetry(machine_id, None, target_state, u)
    \/ \E target_state \in TargetStates, u \in MachineEnds :
           /\ Room(Len(ActiveMachines))
           /\ simulate_all_machines(None, target_state,
                                    [i \in 1..Len(ActiveMachines) |-> u])
    \/ \E active_only \in BOOLEAN : get_machines(active_only)
    \/ \E machine_id \in MachineIds : get_machine(machine_id)
    \/ \E machine_id \in MachineIds, older \in Olders : get_machine_history(machine_id, older)
    \/ get_dashboard_stats

SpecApi == Init /\ [][ApiNext]_vars

(***************************************************************************)
(* A crew: more active workers than one simulate-all query returns, and    *)
(* two machines.                                                           *)
(***************************************************************************)

CrewSize == 7

CrewIds == [i \in 1..CrewSize |-> "WK-" \o ToString(i)]

\* The workers are registered one after the other; one simulate-all request
\* is sent for the workers and one for the machines, at any time.
CrewNext ==
    \/ \E i \in 1..CrewSize :
           Len(workers) = i - 1 /\ register_worker(WorkerCreate(CrewIds[i]))
    \/ \E us \in InTurn(Len(ActiveWorkers), WorkerStreams) :
           /\ worker_vitals = <<>>
           /\ simulate_all_workers(None, None, us,
                                   [i \in 1..Len(ActiveWorkers) |-> CorrelatedStreams[1]])
    \/ \E machine \in FleetRegistered : register_machine(machine)
    \/ \E us \in InTurn(Len(ActiveMachines), MachineStreams) :
           /\ machine_telemetry = <<>>
           /\ simulate_all_machines(None, None, us)

SpecCrew == Init /\ [][CrewNext]_vars

(***************************************************************************)
(* Break requests: two workers whose entries interleave, break requests    *)
(* and reads of either worker at any time.                                 *)
(***************************************************************************)

BreakNext ==
    \/ \E worker_id \in PairWorkerIds : register_worker(WorkerCreate(worker_id))
    \/ \E worker_id \in PairWorkerIds :
           RoomFor(1) /\ create_worker_vitals(VitalsNominal(worker_id))
    \/ \E worker_id \in PairWorkerIds :
           RoomFor(1) /\ simulate_worker_vitals(worker_id, None, WorkerStreams[2])
    \/ /\ RoomFor(Len(ActiveWorkers))
       /\ simulate_all_workers(None, None,
                               [i \in 1..Len(ActiveWorkers) |-> WorkerStreams[2]],
                               [i \in 1..Len(ActiveWorkers) |-> CorrelatedStreams[1]])
    \/ \E worker_id \in PairWorkerIds : issue_break(worker_id)
    \/ \E worker_id \in PairWorkerIds : get_worker(worker_id)

SpecBreak == Init /\ [][BreakNext]_vars

(***************************************************************************)
(* The dashboard over three workers and two machines: readings of every    *)
(* risk state and of every status are posted for them, and the statistics  *)
(* are requested at any time.                                              *)
(***************************************************************************)

BoardWorkerIds == {"WK-1", "WK-2", "WK-3"}

\* The workers are registered one after the other, and a reading is posted
\* for a registered worker.
BoardNext ==
    \/ \E i \in 1..Cardinality(BoardWorkerIds) :
           Len(workers) = i - 1 /\ register_worker(WorkerCreate(CrewIds[i]))
    \/ \E worker_id \in BoardWorkerIds : \E vitals \in VitalsPosted(worker_id) :
           /\ WorkerExists(worker_id) /\ RoomFor(1) /\ ValidWorkerVitals(vitals)
           /\ create_worker_vitals(vitals)
    \/ \E machine \in FleetRegistered : register_machine(machine)
    \/ \E machine_id \in FleetIds : \E telemetry \in TelemetryPosted(machine_id) :
           /\ MachineExists(machine_id) /\ RoomFor(1) /\ ValidMachineTelemetry(telemetry)
           /\ create_machine_telemetry(telemetry)
    \/ get_dashboard_stats

SpecBoard == Init /\ [][BoardNext]_vars

(***************************************************************************)
(* Machine readings on a grid: every combination of the sampled values     *)
(* around the thresholds of both machine scorers is posted for a machine   *)
(* without history, and the next entry is simulated from it.               *)
(***************************************************************************)

GridPosted(machine_id) ==
    {MachineTelemetryCreate(machine_id, "OPERATIONAL", stress, temp, vib, 65, 78, oil) :
         stress \in MachineStressIndexes,
         temp \in MachineTemperatures \cup FailureTemperatures,
         vib \in MachineVibrations \cup FailureVibrations,
         oil \in OilPressures \cup FailureOilPressures}

GridNext ==
    \/ /\ machines = <<>>
       /\ \E machine \in MachinesRegistered : register_machine(machine)
    \/ /\ machine_telemetry = <<>>
       /\ \E machine_id \in MachineIds : \E telemetry \in GridPosted(machine_id) :
              MachineExists(machine_id) /\ create_machine_telemetry(telemetry)
    \/ \E machine_id \in MachineIds, u \in MachineEnds :
           /\ Len(machine_telemetry) = 1
           /\ simulate_machine_telemetry(machine_id, None, None, u)

SpecGrid == Init /\ [][GridNext]_vars

(***************************************************************************)
(* One event loop serving simulate and simulate-all requests for the same  *)
(* worker and the same machine.  No handler awaits, so each request is one *)
(* step; the deliveries to the ESP32 are the tasks that suspend, and they  *)
(* run between the requests.                                               *)
(***************************************************************************)

LoopNext ==
    \/ \E worker_id \in WorkerIds : register_worker(WorkerCreate(worker_id))
    \/ \E worker_id \in WorkerIds, u \in Range(WorkerStreams) :
           RoomFor(1) /\ simulate_worker_vitals(worker_id, None, u)
    \/ \E esp32_url \in Esp32Urls : \E us \in InTurn(Len(ActiveWorkers), WorkerStreams) :
           /\ RoomFor(Len(ActiveWorkers)) /\ MayDeliver(esp32_url)
           /\ simulate_all_workers(esp32_url, None, us,
                                   [i \in 1..Len(ActiveWorkers) |-> CorrelatedStreams[1]])
    \/ send_worker_to_esp32
    \/ \E machine \in MachinesRegistered : register_machine(machine)
    \/ \E machine_id \in MachineIds, u \in MachineEnds :
           RoomFor(1) /\ simulate_machine_telemetry(machine_id, None, None, u)
    \/ \E esp32_url \in Esp32Urls : \E us \in InTurn(Len(ActiveMachines), MachineStreams) :
           /\ RoomFor(Len(ActiveMachines)) /\ MayDeliver(esp32_url)
           /\ simulate_all_machines(esp32_url, None, us)
    \/ send_to_esp32

SpecLoop == Init /\ [][LoopNext]_vars

(***************************************************************************)
(* Properties of the scorers, checked under SpecScore                      *)
(***************************************************************************)

Clamp(lo, hi, x) == IF x < lo THEN lo ELSE IF x > hi THEN hi ELSE x

HrPenalty(hr) == IF hr > 120 THEN 30 ELSE IF hr > 100 THEN 15 ELSE IF hr < 50 THEN 20 ELSE 0
HrvPenalty(h) == IF h < 20 THEN 30 ELSE IF h < 35 THEN 15 ELSE 0
BodyTempPenalty(t) == IF t > 385 THEN 30 ELSE IF t > 375 THEN 15 ELSE IF t < 355 THEN 20 ELSE 0
WorkerStressPenalty(s) == IF s > 70 THEN 20 ELSE IF s > 50 THEN 10 ELSE 0

CisFormula(v) ==
    Clamp(0, 100, 100 - HrPenalty(v.heart_rate) - HrvPenalty(v.hrv)
                      - BodyTempPenalty(v.temperature)
                      - WorkerStressPenalty(v.machine_stress_index)
                      - Min(2 * v.jerk_count, 15))

\* C1: for every valid worker reading calculate_cis_score returns
\* clamp(0, 100, 100 - HR penalty - HRV penalty - temperature penalty
\* - stress penalty - min(2 * jerk_count, 15)).
C1_CisScoreFormula ==
    HasReturned("calculate_cis_score") => call.ret = CisFormula(call.arg)

\* C1 witness: the documented example 130 / 15 / 39.0 / 80 / 5 has returned 0.
C1_Witness ==
    /\ HasReturned("calculate_cis_score")
    /\ call.arg.heart_rate = 130 /\ call.arg.hrv = 15 /\ call.arg.temperature = 390
    /\ call.arg.machine_stress_index = 80 /\ call.arg.jerk_count = 5
    /\ call.ret = 0

\* C2: determine_risk_state returns, for every cis_score in 0..100, HIGH when
\* score <= 30, MEDIUM when 30 < score <= 70 and LOW when score > 70.
C2_RiskStateBands ==
    HasReturned("determine_risk_state") =>
        /\ call.arg \in 0..100
        /\ call.ret \in {"HIGH", "MEDIUM", "LOW"}
        /\ (call.ret = "HIGH") <=> (call.arg <= 30)
        /\ (call.ret = "MEDIUM") <=> (30 < call.arg /\ call.arg <= 70)
        /\ (call.ret = "LOW") <=> (call.arg > 70)

\* C2 witness: the top of the MEDIUM band, score 70, has been classified.
C2_Witness ==
    HasReturned("determine_risk_state") /\ call.arg = 70 /\ call.ret = "MEDIUM"

\* C3 as stated: the boundaries are 30 -> HIGH, 31 -> MEDIUM, 71 -> MEDIUM,
\* 72 -> LOW.
C3_Original ==
    HasReturned("determine_risk_state") =>
        /\ call.arg = 30 => call.ret = "HIGH"
        /\ call.arg = 31 => call.ret = "MEDIUM"
        /\ call.arg = 71 => call.ret = "MEDIUM"
        /\ call.arg = 72 => call.ret = "LOW"

\* C3 amended: the boundaries are 30 -> HIGH, 31 -> MEDIUM, 70 -> MEDIUM,
\* 71 -> LOW (and 72 -> LOW).
C3_RiskStateBoundaries ==
    HasReturned("determine_risk_state") =>
        /\ call.arg = 30 => call.ret = "HIGH"
        /\ call.arg = 31 => call.ret = "MEDIUM"
        /\ call.arg = 70 => call.ret = "MEDIUM"
        /\ call.arg = 71 => call.ret = "LOW"
        /\ call.arg = 72 => call.ret = "LOW"

\* C3 witness: score 71 has been classified, as LOW.
C3_Witness ==
    HasReturned("determine_risk_state") /\ call.arg = 71 /\ call.ret = "LOW"

Tier3(x, t1, p1, t2, p2, t3, p3) ==
    IF x > t1 THEN p1 ELSE IF x > t2 THEN p2 ELSE IF x > t3 THEN p3 ELSE 0

HealthFormula(t) ==
    Clamp(0, 100, 100 - Tier3(t.stress_index, 80, 30, 60, 15, 40, 5)
                      - Tier3(t.temperature, 900, 30, 750, 15, 600, 5)
                      - Tier3(t.vibration_rms, 300, 25, 200, 15, 150, 5)
                      - (IF t.oil_pressure < 20 THEN 25
                         ELSE IF t.oil_pressure < 30 THEN 10 ELSE 0))

\* C4: for every valid machine reading calculate_health_score returns
\* clamp(0, 100, 100 - stress penalty - temperature penalty - vibration
\* penalty - oil penalty), each penalty the first tier breached from the top.
C4_HealthScoreFormula ==
    HasReturned("calculate_health_score") => call.ret = HealthFormula(call.arg)

\* C4 witness: the documented example 85 / 95.0 / 3.5 / 15 has returned 0.
C4_Witness ==
    /\ HasReturned("calculate_health_score")
    /\ call.arg.stress_index = 85 /\ call.arg.temperature = 950
    /\ call.arg.vibration_rms = 350 /\ call.arg.oil_pressure = 15
    /\ call.ret = 0

FailureFormula(h, t) ==
    Clamp(0, 100, (100 - h)
                  + (IF t.vibration_rms > 250 THEN 15 ELSE 0)
                  + (IF t.temperature > 800 THEN 10 ELSE 0)
                  + (IF t.oil_pressure < 25 THEN 15 ELSE 0))

\* C5: for every health_score in 0..100 and valid machine reading,
\* calculate_failure_probability returns clamp(0, 100, (100 - health_score)
\* + 15 if vibration_rms > 2.5, + 10 if temperature > 80, + 15 if
\* oil_pressure < 25), the additions independent and cumulative.
C5_FailureProbabilityFormula ==
    HasReturned("calculate_failure_probability") =>
        call.ret = FailureFormula(call.arg[1], call.arg[2])

\* C5 witness: all three additions applied to a health score of 100 gave 40.
C5_Witness ==
    /\ HasReturned("calculate_failure_probability")
    /\ call.arg[1] = 100
    /\ call.arg[2].vibration_rms > 250 /\ call.arg[2].temperature > 800
    /\ call.arg[2].oil_pressure < 25
    /\ call.ret = 40

\* C6: determine_status returns, on 0..100 x 0..100, MAINTENANCE when
\* health_score < 40 or failure_probability > 70, otherwise WARNING when
\* health_score < 60 or failure_probability > 50, otherwise OPERATIONAL.
C6_StatusBands ==
    HasReturned("determine_status") =>
        LET h == call.arg[1]
            p == call.arg[2]
        IN  /\ call.ret \in {"MAINTENANCE", "WARNING", "OPERATIONAL"}
            /\ (call.ret = "MAINTENANCE") <=> (h < 40 \/ p > 70)
            /\ (call.ret = "WARNING") <=> (~(h < 40 \/ p > 70) /\ (h < 60 \/ p > 50))
            /\ (call.ret = "OPERATIONAL") <=> (h >= 60 /\ p <= 50)

\* C6 witness: health 40 with probability 70 has been classified WARNING.
C6_Witness ==
    HasReturned("determine_status") /\ call.arg = <<40, 70>> /\ call.ret = "WARNING"

(***************************************************************************)
(* Properties of the history entries, checked under Spec and SpecFleet     *)
(***************************************************************************)

FloorThird(n) == CHOOSE d \in 0..34 : 3 * d <= n /\ n < 3 * (d + 1)

\* C7: every machine history entry, whichever of telemetry ingest, simulate
\* and simulate-all appended it, stores predicted_maintenance_days =
\* max(1, floor((100 - failure_probability) / 3)) of its own
\* failure_probability, an integer of 1..33.
C7_PredictedMaintenanceDays ==
    \A i \in DOMAIN machine_telemetry :
        LET e == machine_telemetry[i]
            d == FloorThird(100 - e.failure_probability)
        IN  /\ e.predicted_maintenance_days = (IF d < 1 THEN 1 ELSE d)
            /\ e.predicted_maintenance_days \in 1..33

\* C7 witness: simulate-all has appended to a history that holds an entry
\* whose failure probability leaves less than three points, stored with 1 day.
C7_Witness ==
    /\ last.op = "simulate_all_machines" /\ last.code = 200
    /\ \E i \in DOMAIN machine_telemetry :
           /\ machine_telemetry[i].failure_probability >= 98
           /\ machine_telemetry[i].predicted_maintenance_days = 1

RawCisPenalty(e) ==
    HrPenalty(e.heart_rate) + HrvPenalty(e.hrv) + BodyTempPenalty(e.temperature)
        + WorkerStressPenalty(e.machine_stress_index)
        + (IF 2 * e.jerk_count < 15 THEN 2 * e.jerk_count ELSE 15)

\* C8: after any sequence of ingest and simulate operations every stored
\* composite value lies in 0..100: the cis_score of every worker entry, the
\* health_score and the failure_probability of every machine entry.
C8_CompositesWithinRange ==
    /\ \A i \in DOMAIN worker_vitals :
           worker_vitals[i].cis_score >= 0 /\ worker_vitals[i].cis_score <= 100
    /\ \A i \in DOMAIN machine_telemetry :
           /\ machine_telemetry[i].health_score >= 0
           /\ machine_telemetry[i].health_score <= 100
           /\ machine_telemetry[i].failure_probability >= 0
           /\ machine_telemetry[i].failure_probability <= 100

\* C8 witness: a posted reading whose raw penalty sum exceeds 100 is stored
\* with cis_score 0, and a simulate request has appended a machine entry.
C8_Witness ==
    /\ \E i \in DOMAIN worker_vitals :
           RawCisPenalty(worker_vitals[i]) > 100 /\ worker_vitals[i].cis_score = 0
    /\ last.op = "simulate_machine_telemetry" /\ last.code = 200
    /\ machine_telemetry # <<>>

\* C9: in every history entry the stored composite score is the scorer of
\* the entry's own stored raw fields: cis_score = calculate_cis_score(entry)
\* for a worker entry, health_score = calculate_health_score(entry) for a
\* machine entry.
C9_StoredScoreIsScorerOfRawFields ==
    /\ \A i \in DOMAIN worker_vitals :
           worker_vitals[i].cis_score = calculate_cis_score(worker_vitals[i])
    /\ \A i \in DOMAIN machine_telemetry :
           machine_telemetry[i].health_score = calculate_health_score(machine_telemetry[i])

\* C9, the case that fails: the first simulate of a worker without history
\* stores cis_score 100 for raw fields that calculate_cis_score scores lower.
C9_SimulatedScoreDiverges ==
    /\ last.op = "simulate_worker_vitals" /\ last.code = 200
    /\ Len(worker_vitals) = 1
    /\ worker_vitals[1].cis_score = 100
    /\ calculate_cis_score(worker_vitals[1]) < 100

RiskBand(cis_score) ==
    IF cis_score <= 30 THEN "HIGH" ELSE IF cis_score <= 70 THEN "MEDIUM" ELSE "LOW"

StatusBand(health_score, failure_probability) ==
    IF health_score < 40 \/ failure_probability > 70 THEN "MAINTENANCE"
    ELSE IF health_score < 60 \/ failure_probability > 50 THEN "WARNING"
    ELSE "OPERATIONAL"

\* C10: in every history entry the category is the threshold function of
\* the stored scores alone: risk_state is the band of cis_score, status is
\* the band of health_score and failure_probability and one of OPERATIONAL,
\* WARNING, MAINTENANCE, whatever status the client posted.
C10_CategoryIsBandOfStoredScores ==
    /\ \A i \in DOMAIN worker_vitals :
           worker_vitals[i].risk_state = RiskBand(worker_vitals[i].cis_score)
    /\ \A i \in DOMAIN machine_telemetry :
           /\ machine_telemetry[i].status =
                  StatusBand(machine_telemetry[i].health_score,
                             machine_telemetry[i].failure_probability)
           /\ machine_telemetry[i].status \in {"OPERATIONAL", "WARNING", "MAINTENANCE"}

\* C10 witness: a telemetry POST carrying status OFFLINE has been stored, and
\* a worker entry is stored besides it.
C10_Witness ==
    /\ last.op = "create_machine_telemetry" /\ last.code = 200
    /\ last.request.status = "OFFLINE"
    /\ last.body.status = "MAINTENANCE"
    /\ machine_telemetry[Len(machine_telemetry)] = last.body
    /\ worker_vitals # <<>>

(***************************************************************************)
(* Properties of generation and ingestion                                  *)
(***************************************************************************)

\* the declared domain of a worker reading (temperature in tenths)
WorkerDomain(e) ==
    /\ e.heart_rate \in 40..220
    /\ e.hrv \in 0..200
    /\ e.temperature \in 300..450
    /\ e.jerk_count >= 0
    /\ e.machine_stress_index \in 0..100
    /\ e.vibration_rms >= 0

\* the declared domain of a machine reading (temperature in tenths)
MachineDomain(e) ==
    /\ e.stress_index \in 0..100
    /\ e.temperature \in 0..2000
    /\ e.vibration_rms >= 0
    /\ e.operating_hours >= 0
    /\ e.fuel_level \in 0..100
    /\ e.oil_pressure \in 0..100

Tables == <<workers, worker_vitals, machines, machine_telemetry, background_tasks>>

EntriesWithinDomain ==
    /\ \A i \in DOMAIN worker_vitals : WorkerDomain(worker_vitals[i])
    /\ \A i \in DOMAIN machine_telemetry : MachineDomain(machine_telemetry[i])

\* a step that answers a reading posted with a field out of its domain
PostsOutOfDomain ==
    /\ last' # last
    /\ \/ last'.op = "create_worker_vitals" /\ ~WorkerDomain(last'.request)
       \/ last'.op = "create_machine_telemetry" /\ ~MachineDomain(last'.request)

\* C11: every history entry's raw fields lie in the declared domains, whether
\* the entry was generated (with any target state or none, from any previous
\* reading) or posted, and a posted reading with a field out of its domain is
\* rejected with the tables left as they were.
C11_RawFieldsWithinDomain ==
    /\ []EntriesWithinDomain
    /\ [][PostsOutOfDomain => (last'.code = 422 /\ Tables' = Tables)]_vars

\* a generated reading clamped from the top of the posted domain, and a
\* rejected post after it
C11_Witness ==
    /\ Len(worker_vitals) = 2
    /\ worker_vitals[1].heart_rate = 220 /\ worker_vitals[2].heart_rate = 180
    /\ last.op = "create_machine_telemetry" /\ last.code = 422

Abs(x) == IF x < 0 THEN -x ELSE x

\* the rows a step appends to a history table
Appended(old, new) == {i \in DOMAIN new : i > Len(old)}

\* the step is a simulate request without target_state
SimulatesIncrementally ==
    \/ last'.op = "simulate_worker_vitals"
    \/ /\ last'.op \in {"simulate_all_workers", "simulate_machine_telemetry",
                        "simulate_all_machines"}
       /\ last'.request.target_state = None

\* heart_rate (delta 3, bounds 45..180), hrv (5, 10..150), temperature (0.1,
\* 35.0..40.0) of a worker reading e generated from the reading p
WorkerStepBounded(p, e) ==
    /\ e.heart_rate \in 45..180 /\ Abs(e.heart_rate - p.heart_rate) <= 3
    /\ e.hrv \in 10..150 /\ Abs(e.hrv - p.hrv) <= 5
    /\ e.temperature \in 350..400 /\ Abs(e.temperature - p.temperature) <= 1

\* temperature (delta 2.0, bounds 40..120), fuel_level (1.5, 5..100),
\* oil_pressure (1.0, 20..60) of a machine reading e generated from p
MachineStepBounded(p, e) ==
    /\ e.temperature \in 400..1200 /\ Abs(e.temperature - p.temperature) <= 20
    /\ e.fuel_level \in 5..100 /\ 2 * Abs(e.fuel_level - p.fuel_level) <= 3
    /\ e.oil_pressure \in 20..60 /\ Abs(e.oil_pressure - p.oil_pressure) <= 1

\* C12: a simulate request without target_state for an entity that has a
\* previous reading, posted or generated, stores a reading whose heart_rate,
\* hrv and temperature (worker) or temperature, fuel_level and oil_pressure
\* (machine) lie in their absolute bounds and within the per-step delta of the
\* previous stored value.
C12_IncrementalStepsBounded ==
    [][SimulatesIncrementally =>
          /\ \A i \in Appended(worker_vitals, worker_vitals') :
                 LET e == worker_vitals'[i]
                 IN  VitalsOf(e.worker_id) # {} =>
                         WorkerStepBounded(LatestVitals(e.worker_id), e)
          /\ \A i \in Appended(machine_telemetry, machine_telemetry') :
                 LET e == machine_telemetry'[i]
                 IN  TelemetryOf(e.machine_id) # {} =>
                         MachineStepBounded(LatestTelemetry(e.machine_id), e)]_vars

\* Two generated readings of the DRILL (no posted reading has fuel_level 15):
\* the cold start at the low end of fuel_range, then a step down by 2.
C12_FuelDropsByTwo ==
    /\ Len(machine_telemetry) = 2
    /\ machine_telemetry[1].fuel_level = 15
    /\ machine_telemetry[2].fuel_level = 13
    /\ last.op = "simulate_machine_telemetry" /\ last.request.target_state = None

Within(x, range) == range[1] <= x /\ x <= range[2]

\* a machine reading inside the Profile ranges of a type (temperature in
\* tenths against whole degrees, vibration in hundredths)
WithinProfile(e, profile) ==
    /\ Within(e.temperature, <<10 * profile.temp_range[1], 10 * profile.temp_range[2]>>)
    /\ Within(e.vibration_rms, profile.vibration_range)
    /\ Within(e.stress_index, profile.stress_range)
    /\ Within(e.fuel_level, profile.fuel_range)
    /\ Within(e.oil_pressure, profile.oil_range)

\* C13: for a machine of any type that has no previous entry, a simulate
\* request without target_state stores temperature, vibration_rms,
\* stress_index, fuel_level and oil_pressure inside the ranges of the type's
\* Profile.
C13_ColdStartWithinProfile ==
    [][\A i \in Appended(machine_telemetry, machine_telemetry') :
           LET e == machine_telemetry'[i]
           IN  (/\ last'.op \in {"simulate_machine_telemetry", "simulate_all_machines"}
                /\ last'.request.target_state = None
                /\ TelemetryOf(e.machine_id) = {}) =>
                   WithinProfile(e, TYPE_PROFILES[MachineOf(e.machine_id).type])]_vars

\* The first reading of a CRANE with temperature, fuel_level and oil_pressure
\* inside the Profile and stress_index below stress_range (20, 70).
C13_ColdStartStressBelowProfile ==
    /\ Len(machine_telemetry) = 1
    /\ MachineExists(machine_telemetry[1].machine_id)
    /\ MachineOf(machine_telemetry[1].machine_id).type = "CRANE"
    /\ last.op = "simulate_machine_telemetry" /\ last.request.target_state = None
    /\ machine_telemetry[1].temperature = 650
    /\ machine_telemetry[1].stress_index < 20

\* the category ranges of the claim: hr and hrv in their units, temp in
\* tenths, stress and norm in hundredths
CategoryRanges ==
    [good |-> [hr |-> <<60, 80>>, hrv |-> <<65, 95>>, temp |-> <<363, 368>>,
               stress |-> <<0, 25>>, norm |-> <<5, 35>>],
     fair |-> [hr |-> <<80, 100>>, hrv |-> <<35, 60>>, temp |-> <<369, 373>>,
               stress |-> <<30, 50>>, norm |-> <<40, 65>>],
     poor |-> [hr |-> <<115, 155>>, hrv |-> <<15, 30>>, temp |-> <<374, 383>>,
               stress |-> <<60, 90>>, norm |-> <<70, 95>>]]

\* the step answers a simulate request with a target state
SimulatesTowards(ops) == last'.op \in ops /\ last'.request.target_state \in Targets

WorkerInCategory(e, c) ==
    /\ Within(e.heart_rate, c.hr)
    /\ Within(e.hrv, c.hrv)
    /\ Within(e.temperature, c.temp)
    /\ Within(e.machine_stress_index, c.stress)

NormsInCategory(payload, c) ==
    /\ Within(payload.operational_intensity.actuator_speed_norm, c.norm)
    /\ Within(payload.operational_intensity.torque_load_norm, c.norm)
    /\ Within(payload.mechanical_stress.vibration_rms_norm, c.norm)

\* C14: a simulate request with target_state good, fair or poor stores, for
\* every worker, heart_rate, hrv, temperature and machine_stress_index / 100
\* inside the category's hr, hrv, temp and stress ranges, and generates, for
\* every machine, actuator_speed_norm, torque_load_norm and vibration_rms_norm
\* (sent to the ESP32, and stored as vibration_rms = 4 * vibration_rms_norm)
\* inside the category's norm range, whatever the previous reading is and
\* whether or not there is one.
C14_TargetedMetricsInCategory ==
    [][/\ SimulatesTowards({"simulate_all_workers"}) =>
              \A i \in Appended(worker_vitals, worker_vitals') :
                  WorkerInCategory(worker_vitals'[i],
                                   CategoryRanges[last'.request.target_state])
       /\ SimulatesTowards({"simulate_machine_telemetry", "simulate_all_machines"}) =>
              LET c == CategoryRanges[last'.request.target_state]
              IN  /\ \A i \in Appended(machine_telemetry, machine_telemetry') :
                         Within(machine_telemetry'[i].vibration_rms,
                                <<4 * c.norm[1], 4 * c.norm[2]>>)
                  /\ \A i \in Appended(background_tasks, background_tasks') :
                         NormsInCategory(background_tasks'[i].data.machine, c)]_vars

\* a reading generated towards "good" for a machine whose previous reading was
\* posted at the top of the schema (vibration_rms 20.0), with its payload queued
C14_Witness ==
    /\ Len(machine_telemetry) = 2
    /\ machine_telemetry[1].vibration_rms = 2000
    /\ last.op = "simulate_machine_telemetry" /\ last.request.target_state = "good"
    /\ last.code = 200
    /\ machine_telemetry[2].vibration_rms <= 140
    /\ Len(background_tasks) = 1

\* the rows of one entity, oldest first
HistoryOf(table, key, id) == SelectSeq(table, LAMBDA e : e[key] = id)

\* two entities have no rows, or most recent rows that agree in every
\* persisted field but the entity id
SameLatest(table, key, a, b) ==
    LET ha == HistoryOf(table, key, a)
        hb == HistoryOf(table, key, b)
    IN  IF ha = <<>> \/ hb = <<>> THEN ha = hb
        ELSE [ha[Len(ha)] EXCEPT ![key] = b] = hb[Len(hb)]

\* C15: the reading a simulate request generates for an entity, for given
\* random draws, depends only on the persisted fields of the entity's latest
\* history entry, its machine type and the target state: entities of one type
\* whose latest entries agree get the same readings whatever their older
\* entries are, and an entity with no entry gets the cold-start reading.
C15_NextReadingDependsOnLatestEntry ==
    /\ \A i \in DOMAIN workers, j \in DOMAIN workers :
           \A t \in TargetStates, u \in WorkerEnds :
               LET a == workers[i].worker_id
                   b == workers[j].worker_id
               IN  /\ (i < j /\ SameLatest(worker_vitals, "worker_id", a, b)) =>
                          SimulatedWorker(a, t, u) = SimulatedWorker(b, t, u)
                   /\ (i = j /\ HistoryOf(worker_vitals, "worker_id", a) = <<>>) =>
                          SimulatedWorker(a, t, u)
                              = generate_comprehensive_worker_telemetry(NoValues, t, u)
    /\ \A i \in DOMAIN machines, j \in DOMAIN machines :
           \A t \in TargetStates, u \in MachineEnds :
               LET a == machines[i]
                   b == machines[j]
               IN  /\ (/\ i < j /\ a.type = b.type
                       /\ SameLatest(machine_telemetry, "machine_id",
                                     a.machine_id, b.machine_id)) =>
                          SimulatedMachine(a, t, u) = SimulatedMachine(b, t, u)
                   /\ (i = j /\ HistoryOf(machine_telemetry, "machine_id", a.machine_id)
                                    = <<>>) =>
                          SimulatedMachine(a, t, u)
                              = generate_comprehensive_telemetry(ProfileOf(a.type),
                                                                 NoValues, t, u)

\* WK-1 with one reading and WK-2 with two, the latest ones equal and the
\* older one of WK-2 different
C15_Witness ==
    LET h1 == HistoryOf(worker_vitals, "worker_id", "WK-1")
        h2 == HistoryOf(worker_vitals, "worker_id", "WK-2")
    IN  /\ Len(h1) = 1 /\ Len(h2) = 2
        /\ SameLatest(worker_vitals, "worker_id", "WK-1", "WK-2")
        /\ h2[1].heart_rate # h2[2].heart_rate

(***************************************************************************)
(* Properties of the request handlers                                      *)
(***************************************************************************)

\* the step answers a well-formed request of one of the operations ops (a
\* delivery to the ESP32 is the only step that is not a request)
Answers(ops) ==
    /\ Len(background_tasks') >= Len(background_tasks)
    /\ last'.op \in ops
    /\ last'.code # 422

\* the request names a worker, or a machine, that is not registered
NamesUnregisteredWorker == ~WorkerExists(last'.request.worker_id)
NamesUnregisteredMachine == ~MachineExists(last'.request.machine_id)

NotFoundAndUnchanged == last'.code = 404 /\ Tables' = Tables

RowsKept(old, new) == Len(new) >= Len(old) /\ SubSeq(new, 1, Len(old)) = old

\* The statement as given: no step changes a field of a persisted entry or
\* removes one.
C17_Original ==
    [][/\ RowsKept(worker_vitals, worker_vitals')
       /\ RowsKept(machine_telemetry, machine_telemetry')]_vars

\* a row of worker_vitals without its break flag
Unflagged(e) == [e EXCEPT !.break_flag = FALSE]

\* C17: history is append-only and the raw reading, score and category of a
\* persisted entry never change: no operation removes or reorders an entry or
\* changes any of its fields, except that issue_break sets break_flag (false
\* to true) on the most recent entry of the worker it names.
C17_AppendOnlyExceptBreakFlag ==
    [][/\ RowsKept(machine_telemetry, machine_telemetry')
       /\ Len(worker_vitals') >= Len(worker_vitals)
       /\ \A i \in DOMAIN worker_vitals :
              \/ worker_vitals'[i] = worker_vitals[i]
              \/ /\ last'.op = "issue_break" /\ last'.code = 200
                 /\ worker_vitals[i].worker_id = last'.request.worker_id
                 /\ \A j \in VitalsOf(last'.request.worker_id) : j <= i
                 /\ ~worker_vitals[i].break_flag /\ worker_vitals'[i].break_flag
                 /\ Unflagged(worker_vitals'[i]) = worker_vitals[i]]_vars

\* a break was issued on the first entry of the worker, and a second entry
\* was appended after it
C17_Witness ==
    /\ Len(worker_vitals) = 2
    /\ worker_vitals[1].break_flag /\ ~worker_vitals[2].break_flag

WorkerReadingFields ==
    {"heart_rate", "hrv", "temperature", "jerk_count", "machine_stress_index",
     "vibration_rms", "cis_score", "risk_state"}

MachineReadingFields ==
    {"stress_index", "temperature", "vibration_rms", "operating_hours", "fuel_level",
     "oil_pressure", "health_score", "failure_probability", "status"}

\* a GET element reports the fields of the entity's most recent row, or None
\* for each of them when the entity has no row
ReportsLatest(element, table, key, fields) ==
    LET h == HistoryOf(table, key, element[key])
    IN  \A f \in fields :
            element[f] = IF h = <<>> THEN None ELSE h[Len(h)][f]

\* C18: the answer of GET worker / GET machine, and every element of the
\* answer of the list GETs, carries the raw fields, the score and the category
\* of the most recently appended history entry of the entity, and None for
\* each of these fields when the entity has no entry.
C18_GetReportsLatestEntry ==
    /\ (last.op = "get_worker" /\ last.code = 200) =>
           ReportsLatest(last.body, worker_vitals, "worker_id", WorkerReadingFields)
    /\ last.op = "get_workers" =>
           \A i \in DOMAIN last.body.workers :
               ReportsLatest(last.body.workers[i], worker_vitals, "worker_id",
                             WorkerReadingFields)
    /\ (last.op = "get_machine" /\ last.code = 200) =>
           ReportsLatest(last.body, machine_telemetry, "machine_id", MachineReadingFields)
    /\ last.op = "get_machines" =>
           \A i \in DOMAIN last.body.machines :
               ReportsLatest(last.body.machines[i], machine_telemetry, "machine_id",
                             MachineReadingFields)

\* GET worker answered for a worker with two entries of different scores
C18_Witness ==
    /\ last.op = "get_worker" /\ last.code = 200
    /\ Len(worker_vitals) = 2
    /\ worker_vitals[1].cis_score # worker_vitals[2].cis_score
    /\ last.body.cis_score = worker_vitals[2].cis_score

\* C19: a simulate request for a registered worker is answered with success,
\* appends exactly one history entry and returns that entry, with or without
\* esp32_url.
C19_WorkerSimulateNeverFails ==
    [][(Answers({"simulate_worker_vitals"}) /\ WorkerExists(last'.request.worker_id)) =>
           /\ last'.code = 200
           /\ worker_vitals' = Append(worker_vitals, last'.body)]_vars

\* a simulate request with esp32_url answered with a server error, its entry
\* stored all the same and nothing queued for the ESP32
C19_FailsAfterCommit ==
    /\ last.op = "simulate_worker_vitals"
    /\ last.request.esp32_url # None
    /\ last.code = 500
    /\ Len(worker_vitals) = 1
    /\ background_tasks = <<>>

\* a simulate-all step over the active rows of an entity table: not-found and
\* nothing appended when there is none, else one new history row for each of
\* them and one element of the answer for each of them
SimulatesEveryActive(entities, key, old, new, elements) ==
    LET active == {e[key] : e \in {x \in Range(entities) : x.is_active}}
    IN  IF active = {}
        THEN last'.code = 404 /\ Tables' = Tables
        ELSE /\ last'.code = 200
             /\ RowsKept(old, new)
             /\ \A id \in active :
                    /\ Cardinality({i \in Appended(old, new) : new[i][key] = id}) = 1
                    /\ Cardinality({i \in DOMAIN elements : elements[i][key] = id}) = 1
             /\ Len(new) = Len(old) + Cardinality(active)
             /\ Len(elements) = Cardinality(active)

\* C20: a simulate-all request answers not-found and appends nothing when its
\* domain has no active entity, and otherwise appends exactly one history
\* entry for every active worker (respectively machine) and returns one
\* element for each of them.
C20_SimulateAllCoversEveryActive ==
    [][/\ Answers({"simulate_all_workers"}) =>
              SimulatesEveryActive(workers, "worker_id", worker_vitals, worker_vitals',
                                   IF last'.code = 200 THEN last'.body.workers ELSE <<>>)
       /\ Answers({"simulate_all_machines"}) =>
              SimulatesEveryActive(machines, "machine_id", machine_telemetry,
                                   machine_telemetry',
                                   IF last'.code = 200 THEN last'.body.machines ELSE <<>>)]_vars

\* seven active workers, a simulate-all request answered with six elements,
\* and no history entry for the seventh worker
C20_SeventhWorkerSkipped ==
    /\ Len(workers) = 7 /\ \A i \in DOMAIN workers : workers[i].is_active
    /\ last.op = "simulate_all_workers" /\ last.code = 200
    /\ last.body.total = 6
    /\ Len(worker_vitals) = 6
    /\ VitalsOf(workers[7].worker_id) = {}

(***************************************************************************)
(* Relational properties of the worker scorer, checked under SpecScore     *)
(***************************************************************************)

\* the reading of the call with another heart rate
WithHeartRate(hr) == [call.arg EXCEPT !.heart_rate = hr]

\* The statement as given: of two readings that differ in heart_rate only,
\* the one above 100 (or above 120) when the other is not never scores higher.
C21_Original ==
    HasReturned("calculate_cis_score") =>
        \A hr \in HeartRates :
            (\/ hr > 100 /\ ~(call.arg.heart_rate > 100)
             \/ hr > 120 /\ ~(call.arg.heart_rate > 120)) =>
                calculate_cis_score(WithHeartRate(hr)) <= call.ret

\* C21: for two valid worker readings r1, r2 that differ in heart_rate only,
\* calculate_cis_score(r2) <= calculate_cis_score(r1) if r2.heart_rate is
\* above 120 and r1.heart_rate is not, or r2.heart_rate is above 100 and
\* r1.heart_rate is in 50..100; from a heart rate below 50 a heart rate in
\* 101..120 scores at most 5 higher.
C21_ThresholdMonotoneFromNormal ==
    HasReturned("calculate_cis_score") =>
        \A hr \in HeartRates :
            /\ (\/ hr > 120 /\ ~(call.arg.heart_rate > 120)
                \/ hr > 100 /\ call.arg.heart_rate \in 50..100) =>
                   calculate_cis_score(WithHeartRate(hr)) <= call.ret
            /\ (hr \in 101..120 /\ call.arg.heart_rate < 50) =>
                   /\ calculate_cis_score(WithHeartRate(hr)) >= call.ret
                   /\ calculate_cis_score(WithHeartRate(hr)) <= call.ret + 5

\* a reading at heart rate 100 was scored, and the same reading scores 15
\* lower at 101 and 30 lower at 121
C21_Witness ==
    /\ HasReturned("calculate_cis_score")
    /\ call.arg.heart_rate = 100
    /\ calculate_cis_score(WithHeartRate(101)) = call.ret - 15
    /\ calculate_cis_score(WithHeartRate(121)) = call.ret - 30

(***************************************************************************)
(* Properties of the generated payloads and entries                        *)
(***************************************************************************)

\* the labels the thresholds give to a machine_health_score
LabelsOf(health_score) ==
    IF health_score >= 80 THEN {"normal", "optimal"}
    ELSE IF health_score >= 60 THEN {"attention"}
    ELSE IF health_score >= 40 THEN {"warning"}
    ELSE {"critical"}

\* the health_context blocks of the machine generator: those of the payloads
\* queued by the machine simulate handlers
GeneratorContexts ==
    {background_tasks[i].data.machine.health_context :
         i \in {j \in DOMAIN background_tasks :
                    background_tasks[j].func = "send_to_esp32"}}

\* the health_context blocks of generate_correlated_machine_data: those of the
\* payloads queued by worker simulate-all and of the payload it returns
CorrelatedContexts ==
    {background_tasks[i].data.machine.health_context :
         i \in {j \in DOMAIN background_tasks :
                    background_tasks[j].func = "send_worker_to_esp32"}}
    \cup (IF last.op = "simulate_all_workers" /\ last.code = 200
          THEN {last.body.last_esp32_payload.machine.health_context}
          ELSE {})

\* C22: in every machine health_context the engine produces (machine
\* generator and correlated machine block, any target_state), maintenance_state
\* is the label of the thresholds for machine_health_score: >= 80
\* normal/optimal, >= 60 attention, >= 40 warning, otherwise critical.
C22_MaintenanceStateIsLabelOfScore ==
    \A c \in GeneratorContexts \cup CorrelatedContexts :
        c.maintenance_state \in LabelsOf(c.machine_health_score)

\* worker simulate-all with target_state poor returned a correlated machine
\* block labelled critical with a machine_health_score of 55..60
C22_CorrelatedPoorIsCritical ==
    /\ last.op = "simulate_all_workers" /\ last.code = 200
    /\ last.request.target_state = "poor"
    /\ \E c \in CorrelatedContexts :
           c.maintenance_state = "critical" /\ c.machine_health_score \in 55..60

\* C23: every worker entry appended by simulate or simulate-all, for any
\* previous reading and any target_state, has cis_score in 35..100 and
\* risk_state MEDIUM or LOW; an entry with risk_state HIGH is appended by POST
\* vitals only.
C23_SimulatedWorkerNeverHigh ==
    [][\A i \in Appended(worker_vitals, worker_vitals') :
           /\ last'.op \in {"simulate_worker_vitals", "simulate_all_workers"} =>
                  /\ worker_vitals'[i].cis_score \in 35..100
                  /\ worker_vitals'[i].risk_state \in {"MEDIUM", "LOW"}
           /\ worker_vitals'[i].risk_state = "HIGH" =>
                  last'.op = "create_worker_vitals"]_vars

\* a posted entry with risk_state HIGH, followed by an entry simulated towards
\* poor that carries all three penalties of the generator (score 35)
C23_Witness ==
    /\ Len(worker_vitals) = 2
    /\ worker_vitals[1].risk_state = "HIGH"
    /\ last.op = "simulate_all_workers" /\ last.code = 200
    /\ last.request.target_state = "poor"
    /\ worker_vitals[2].cis_score = 35 /\ worker_vitals[2].risk_state = "MEDIUM"

\* The pairs <<p, e>> of a machine simulate step: e an entry the step appends
\* for a machine that had an entry, p the latest entry of that machine before
\* the step
MachineSimulatedPairs ==
    IF Answers({"simulate_machine_telemetry", "simulate_all_machines"})
    THEN {<<LatestTelemetry(machine_telemetry'[i].machine_id), machine_telemetry'[i]>> :
              i \in {j \in Appended(machine_telemetry, machine_telemetry') :
                         TelemetryOf(machine_telemetry'[j].machine_id) # {}}}
    ELSE {}

\* The statement as given: neither value increases from a previous value
\* inside its clamp range.
C24_Original ==
    [][\A x \in MachineSimulatedPairs :
           /\ x[1].fuel_level >= 5 => x[2].fuel_level <= x[1].fuel_level
           /\ x[1].oil_pressure >= 20 => x[2].oil_pressure <= x[1].oil_pressure]_vars

\* C24: in a chain of machine simulate calls fuel_level never increases from
\* a previous value of at least 5, so once it reaches 5 it stays there;
\* oil_pressure never increases by more than 1 from a previous value of at
\* least 20 (previous + delta truncates to previous + 1 only when the delta is
\* at the upper end of its range), and it never falls below 20.
C24_FuelNeverIncreasesOilByOne ==
    [][\A x \in MachineSimulatedPairs :
           /\ x[1].fuel_level >= 5 => x[2].fuel_level <= x[1].fuel_level
           /\ x[1].fuel_level = 5 => x[2].fuel_level = 5
           /\ x[1].oil_pressure >= 20 => x[2].oil_pressure <= x[1].oil_pressure + 1
           /\ x[2].oil_pressure >= 20]_vars

\* a posted reading followed by two simulated entries: the oil pressure has
\* gone up by one in the first and the fuel level has fallen in both
C24_Witness ==
    /\ Len(machine_telemetry) = 3
    /\ machine_telemetry[1].oil_pressure \in 20..59
    /\ machine_telemetry[2].oil_pressure = machine_telemetry[1].oil_pressure + 1
    /\ machine_telemetry[2].fuel_level < machine_telemetry[1].fuel_level
    /\ machine_telemetry[3].fuel_level < machine_telemetry[2].fuel_level

\* previous temperature plus a delta in [-2, 2], clamped to [40, 120] (tenths)
TemperatureDrifted(p, e) ==
    /\ e.temperature >= Clamp(400, 1200, p.temperature - 20)
    /\ e.temperature <= Clamp(400, 1200, p.temperature + 20)

\* the payloads a machine simulate step queues for machines that had an entry
QueuedWithHistory ==
    IF Answers({"simulate_machine_telemetry", "simulate_all_machines"})
    THEN {background_tasks'[k].data :
              k \in {j \in Appended(background_tasks, background_tasks') :
                         TelemetryOf(background_tasks'[j].data.machine_id) # {}}}
    ELSE {}

\* what the generator returns for machine m, for its history, under every
\* target state and the same draws: temperature and rpm_instability as
\* without a target state when m has an entry, and in the range of the target
\* state when it has none
TargetActsAtColdStartOnly(m) ==
    \A t \in Targets, u \in MachineEnds \cup Range(MachineStreams) :
        LET a == SimulatedMachine(m, t, u)
            b == SimulatedMachine(m, None, u)
            mid == 5 * (ProfileOf(m.type).temp_range[1] + ProfileOf(m.type).temp_range[2])
            offset == TARGET_RANGES[t].temp_offset
        IN  IF TelemetryOf(m.machine_id) # {}
            THEN /\ a.temperature = b.temperature
                 /\ a.mechanical_stress.rpm_instability = b.mechanical_stress.rpm_instability
                 /\ TemperatureDrifted(LatestTelemetry(m.machine_id), b)
                 /\ b.mechanical_stress.rpm_instability \in 17..23
            ELSE /\ Within(a.mechanical_stress.rpm_instability, TARGET_RANGES[t].norm)
                 /\ Within(a.temperature,
                           <<Clamp(400, 1200, mid + 10 * offset[1] - 50),
                             Clamp(400, 1200, mid + 10 * offset[2] + 50)>>)

\* C25: for a machine that has a history entry, target_state (good, fair,
\* poor or absent) has no effect on the generated engine temperature or
\* rpm_instability: the next temperature is the previous temperature plus a
\* delta in [-2, 2] clamped to [40, 120], and rpm_instability lies in
\* [0.17, 0.23]; the target temperature offset and the target rpm range apply
\* at cold start only.
C25_TargetIgnoredWithHistory ==
    /\ [](\A m \in Range(machines) : TargetActsAtColdStartOnly(m))
    /\ [][/\ \A x \in MachineSimulatedPairs : TemperatureDrifted(x[1], x[2])
          /\ \A d \in QueuedWithHistory :
                 d.machine.mechanical_stress.rpm_instability \in 17..23]_vars

\* a reading posted at temperature 0, then a simulate request towards poor
\* with an ESP32 url: the entry is at the lower clamp, far below the range of
\* the target state, and the queued rpm_instability is about 0.2
C25_Witness ==
    /\ Len(machine_telemetry) = 2
    /\ machine_telemetry[1].temperature = 0
    /\ machine_telemetry[2].temperature \in 400..420
    /\ last.op = "simulate_machine_telemetry" /\ last.code = 200
    /\ last.request.target_state = "poor"
    /\ Len(background_tasks) = 1
    /\ background_tasks[1].data.machine.mechanical_stress.rpm_instability \in 17..23

(***************************************************************************)
(* Properties of the break flag, checked under SpecBreak                   *)
(***************************************************************************)

\* C26: issue_break(w) sets break_flag on the latest entry of w only and
\* changes nothing else; issue_break for a worker without an entry answers
\* not-found and changes nothing; every appended entry has break_flag false and
\* no other step changes an entry; GET worker w reports the break_flag of the
\* latest entry of w, hence true exactly from an issue_break until the next
\* entry of w is appended.
C26_BreakFlagOnLatestUntilNextEntry ==
    [][/\ Answers({"issue_break"}) =>
              IF VitalsOf(last'.request.worker_id) = {}
              THEN NotFoundAndUnchanged
              ELSE /\ last'.code = 200
                   /\ worker_vitals' =
                          [i \in DOMAIN worker_vitals |->
                               IF /\ worker_vitals[i].worker_id = last'.request.worker_id
                                  /\ \A j \in VitalsOf(last'.request.worker_id) : j <= i
                               THEN [worker_vitals[i] EXCEPT !.break_flag = TRUE]
                               ELSE worker_vitals[i]]
                   /\ UNCHANGED <<workers, machines, machine_telemetry, background_tasks>>
       /\ last'.op # "issue_break" => RowsKept(worker_vitals, worker_vitals')
       /\ \A i \in Appended(worker_vitals, worker_vitals') : ~worker_vitals'[i].break_flag
       /\ (Answers({"get_worker"}) /\ last'.code = 200) =>
              LET h == HistoryOf(worker_vitals, "worker_id", last'.request.worker_id)
              IN  last'.body.break_flag = IF h = <<>> THEN None ELSE h[Len(h)].break_flag]_vars

\* WK-1 was given a break on its first entry, WK-2 has an entry after that
\* one and no break, WK-1 then got another entry, and GET WK-1 reports no break
C26_Witness ==
    /\ Len(worker_vitals) = 3
    /\ worker_vitals[1].worker_id = "WK-1" /\ worker_vitals[1].break_flag
    /\ worker_vitals[2].worker_id = "WK-2" /\ ~worker_vitals[2].break_flag
    /\ worker_vitals[3].worker_id = "WK-1" /\ ~worker_vitals[3].break_flag
    /\ last.op = "get_worker" /\ last.code = 200
    /\ last.request.worker_id = "WK-1" /\ last.body.break_flag = FALSE

(***************************************************************************)
(* Properties of the tables                                                *)
(***************************************************************************)

\* no two rows of an entity table carry the same id
UniqueIds(table, key) ==
    \A i, j \in DOMAIN table : table[i][key] = table[j][key] => i = j

ActiveIds(entities, key) == {e[key] : e \in {x \in Range(entities) : x.is_active}}

\* the ids of ids whose most recent history entry has a value of field in values
LatestIn(ids, table, key, field, values) ==
    {id \in ids : LET h == HistoryOf(table, key, id)
                  IN  h # <<>> /\ h[Len(h)][field] \in values}

\* C28: get_dashboard_stats returns the aggregate over the latest entry of
\* each active entity: the high, medium and low counts partition the active
\* workers that have an entry by their latest risk_state (their sum is at most
\* total_active_workers, with equality iff every active worker has an entry),
\* the operational, warning and maintenance counts do the same for machines by
\* latest status, and system_status is DEGRADED iff high_risk_count > 2 or
\* machines_maintenance > 1, and ONLINE otherwise.
C28_DashboardIsAggregateOfLatest ==
    [][Answers({"get_dashboard_stats"}) =>
           LET w == ActiveIds(workers, "worker_id")
               m == ActiveIds(machines, "machine_id")
               risk(v) == Cardinality(LatestIn(w, worker_vitals, "worker_id",
                                               "risk_state", v))
               status(v) == Cardinality(LatestIn(m, machine_telemetry, "machine_id",
                                                 "status", v))
               b == last'.body
           IN  /\ last'.code = 200 /\ Tables' = Tables
               /\ b.total_active_workers = Cardinality(w)
               /\ b.high_risk_count = risk({"HIGH"})
               /\ b.medium_risk_count = risk({"MEDIUM"})
               /\ b.low_risk_count = risk({"LOW"})
               /\ b.high_risk_count + b.medium_risk_count + b.low_risk_count
                      <= b.total_active_workers
               /\ (b.high_risk_count + b.medium_risk_count + b.low_risk_count
                       = b.total_active_workers)
                      <=> \A id \in w : HistoryOf(worker_vitals, "worker_id", id) # <<>>
               /\ b.total_machines = Cardinality(m)
               /\ b.machines_operational = status({"OPERATIONAL"})
               /\ b.machines_warning = status({"WARNING"})
               /\ b.machines_maintenance = status({"MAINTENANCE"})
               /\ b.machines_operational + b.machines_warning + b.machines_maintenance
                      <= b.total_machines
               /\ (b.machines_operational + b.machines_warning + b.machines_maintenance
                       = b.total_machines)
                      <=> \A id \in m : HistoryOf(machine_telemetry, "machine_id", id) # <<>>
               /\ b.system_status =
                      IF b.high_risk_count > 2 \/ b.machines_maintenance > 1
                      THEN "DEGRADED" ELSE "ONLINE"]_vars

\* three workers whose latest entries are HIGH: the dashboard reports three
\* high-risk workers and a degraded system
C28_Witness ==
    /\ last.op = "get_dashboard_stats"
    /\ last.body.total_active_workers = 3
    /\ last.body.high_risk_count = 3
    /\ last.body.system_status = "DEGRADED"

(***************************************************************************)
(* Properties of the machine scores, checked under SpecGrid                *)
(***************************************************************************)

\* C29: every machine history entry has failure_probability >= 100 -
\* health_score, and its status agrees with its scores and its
\* predicted_maintenance_days: OPERATIONAL implies health_score >= 60,
\* failure_probability <= 50 and at least 16 days; WARNING implies 10..19
\* days; MAINTENANCE implies at most 13 days.
C29_StatusAndDaysConsistent ==
    \A e \in Range(machine_telemetry) :
        /\ e.failure_probability >= 100 - e.health_score
        /\ e.status \in {"OPERATIONAL", "WARNING", "MAINTENANCE"}
        /\ e.status = "OPERATIONAL" =>
               /\ e.health_score >= 60
               /\ e.failure_probability <= 50
               /\ e.predicted_maintenance_days >= 16
        /\ e.status = "WARNING" => e.predicted_maintenance_days \in 10..19
        /\ e.status = "MAINTENANCE" => e.predicted_maintenance_days <= 13

\* a posted entry on the upper edge of the WARNING band (health_score 55,
\* failure_probability 70, 10 days), and an entry simulated from it
C29_Witness ==
    /\ Len(machine_telemetry) = 2
    /\ machine_telemetry[1].status = "WARNING"
    /\ machine_telemetry[1].health_score = 55
    /\ machine_telemetry[1].failure_probability = 70
    /\ machine_telemetry[1].predicted_maintenance_days = 10

(***************************************************************************)
(* Properties of the simulate requests on one event loop, checked under    *)
(* SpecLoop                                                                *)
(***************************************************************************)

\* the entries the worker generator and the scorer make of the last entry of
\* a history, or of no entry when the history is empty
WorkerEntriesFrom(history, worker_id, target_state) ==
    {LET previous == history[Len(history)]
         simulated ==
             IF history = <<>>
             THEN generate_comprehensive_worker_telemetry(NoValues, target_state, u)
             ELSE generate_incremental_worker_telemetry(
                      [heart_rate |-> previous.heart_rate,
                       hrv |-> previous.hrv,
                       temperature |-> previous.temperature,
                       machine_stress_index |-> previous.machine_stress_index],
                      target_state, u)
     IN  WorkerVitals(worker_id, simulated, simulated.cis_score, simulated.risk_state) :
         u \in Range(WorkerStreams)}

\* the entries the machine generator and the scorer make of the last entry of
\* a history, or of no entry when the history is empty
MachineEntriesFrom(history, machine, target_state) ==
    {LET previous == history[Len(history)]
         simulated_data ==
             IF history = <<>>
             THEN generate_comprehensive_telemetry(ProfileOf(machine.type), NoValues,
                                                   target_state, u)
             ELSE generate_incremental_telemetry(
                      machine.type,
                      [temperature |-> previous.temperature,
                       vibration_rms |-> previous.vibration_rms,
                       stress_index |-> previous.stress_index,
                       fuel_level |-> previous.fuel_level,
                       oil_pressure |-> previous.oil_pressure,
                       operating_hours |-> previous.operating_hours],
                      target_state, u)
     IN  ScoredTelemetry(TelemetryInput(machine.machine_id, simulated_data)) :
         u \in Range(MachineStreams)}

\* C30: under any interleaving of simulate and simulate-all requests for the
\* same worker or machine with the deliveries to the ESP32, every entry a
\* request appends directly follows, in the history of its entity, the entry
\* that was the latest one when the request started, and is generated from
\* that entry (from nothing for an entity without history); a request appends
\* one entry per entity, so no two entries are generated from the same entry.
C30_SimulatedFromImmediatePredecessor ==
    [][/\ Answers({"simulate_worker_vitals", "simulate_all_workers"}) =>
              /\ RowsKept(worker_vitals, worker_vitals')
              /\ \A i \in Appended(worker_vitals, worker_vitals') :
                     LET e == worker_vitals'[i]
                         before == HistoryOf(worker_vitals, "worker_id", e.worker_id)
                         after == HistoryOf(worker_vitals', "worker_id", e.worker_id)
                         target_state == IF last'.op = "simulate_all_workers"
                                         THEN last'.request.target_state
                                         ELSE None
                     IN  /\ after = Append(before, e)
                         /\ e \in WorkerEntriesFrom(before, e.worker_id, target_state)
       /\ Answers({"simulate_machine_telemetry", "simulate_all_machines"}) =>
              /\ RowsKept(machine_telemetry, machine_telemetry')
              /\ \A i \in Appended(machine_telemetry, machine_telemetry') :
                     LET e == machine_telemetry'[i]
                         before == HistoryOf(machine_telemetry, "machine_id", e.machine_id)
                         after == HistoryOf(machine_telemetry', "machine_id", e.machine_id)
                     IN  /\ after = Append(before, e)
                         /\ e \in MachineEntriesFrom(before, MachineOf(e.machine_id),
                                                last'.request.target_state)]_vars

\* a simulate request for a worker is answered while the delivery queued by a
\* simulate-all request is still pending, and the worker has three entries
C30_Witness ==
    /\ last.op = "simulate_worker_vitals"
    /\ last.code = 200
    /\ background_tasks # <<>>
    /\ Head(background_tasks).func = "send_worker_to_esp32"
    /\ Len(HistoryOf(worker_vitals, "worker_id", last.request.worker_id)) = 3
    /\ last.body = worker_vitals[Len(worker_vitals)]

==============================================================================
